---- MODULE Spec2Model ----
(***************************************************************************)
(* Model of scripts/fetch_epg.py: the EPG run that resolves the channels   *)
(* of filter.txt against the Jio (primary) and Tata Play (fallback) feeds   *)
(* and writes one JSON record per target for today and for tomorrow (IST).  *)
(*                                                                         *)
(* Strings that the code inspects character by character (names, titles,   *)
(* slugs, keys) are sequences of one-character strings.  Channel ids and    *)
(* logo URLs are only compared and are atomic strings.  Optional values are *)
(* sequences of length 0 (None / missing) or 1.  Instants are minutes since *)
(* the IST midnight that begins the day of the run; the IST wall clock of   *)
(* an instant t is t modulo one day (IST has no daylight saving).           *)
(***************************************************************************)
EXTENDS Integers, Sequences, FiniteSets, TLC

----------------------------------------------------------------------------
(* Bounds of the model *)

MaxTargets == 2
MaxChannels == 2
MaxProgs == 2

----------------------------------------------------------------------------
(* Characters and strings *)

LowerAlnum ==
  {"a","b","c","d","e","f","g","h","i","j","k","l","m","n","o","p","q","r",
   "s","t","u","v","w","x","y","z","0","1","2","3","4","5","6","7","8","9"}

UpperLetters ==
  <<"A","B","C","D","E","F","G","H","I","J","K","L","M",
    "N","O","P","Q","R","S","T","U","V","W","X","Y","Z">>

LowerLetters ==
  <<"a","b","c","d","e","f","g","h","i","j","k","l","m",
    "n","o","p","q","r","s","t","u","v","w","x","y","z">>

\* str.lower() on the ASCII letters
LowerOf == [c \in {UpperLetters[i] : i \in 1..26} |->
              LowerLetters[CHOOSE i \in 1..26 : UpperLetters[i] = c]]

LowerChar(c) == IF c \in DOMAIN LowerOf THEN LowerOf[c] ELSE c

lower(s) == [i \in 1..Len(s) |-> LowerChar(s[i])]

\* str.replace / re.sub of the single character "&" by the string rep
RECURSIVE ReplaceAmp(_, _)
ReplaceAmp(s, rep) ==
  IF s = << >> THEN << >>
  ELSE (IF Head(s) = "&" THEN rep ELSE <<Head(s)>>) \o ReplaceAmp(Tail(s), rep)

\* str.strip(): leading and trailing whitespace removed
RECURSIVE LStrip(_)
LStrip(s) == IF s # << >> /\ Head(s) = " " THEN LStrip(Tail(s)) ELSE s

RECURSIVE RStrip(_)
RStrip(s) ==
  IF s # << >> /\ s[Len(s)] = " " THEN RStrip(SubSeq(s, 1, Len(s) - 1)) ELSE s

strip(s) == RStrip(LStrip(s))

\* the characters re.sub(r"[\s\-\_\.]", "", s) deletes
NormSeparators == {" ", "-", "_", "."}

NormKeep(c) == c \notin NormSeparators

\* variant: "&" is left as it is
normalize_name_keep_amp(name) == SelectSeq(lower(name), NormKeep)

normalize_name(name) ==
  SelectSeq(ReplaceAmp(lower(name), <<"a", "n", "d">>), NormKeep)

base_name_no_hd(norm) ==
  IF Len(norm) >= 2 /\ norm[Len(norm) - 1] = "h" /\ norm[Len(norm)] = "d"
  THEN SubSeq(norm, 1, Len(norm) - 2)
  ELSE norm

\* re.sub(r"[^a-z0-9]+", "-", s): every maximal run of other characters
\* becomes one hyphen
RECURSIVE HyphenateRuns(_, _)
HyphenateRuns(s, inRun) ==
  IF s = << >> THEN << >>
  ELSE IF Head(s) \in LowerAlnum
       THEN <<Head(s)>> \o HyphenateRuns(Tail(s), FALSE)
       ELSE (IF inRun THEN << >> ELSE <<"-">>) \o HyphenateRuns(Tail(s), TRUE)

RECURSIVE StripHyphens(_)
StripHyphens(s) ==
  IF s # << >> /\ Head(s) = "-" THEN StripHyphens(Tail(s))
  ELSE IF s # << >> /\ s[Len(s)] = "-"
       THEN StripHyphens(SubSeq(s, 1, Len(s) - 1))
       ELSE s

slugify(name) ==
  LET s1 == ReplaceAmp(lower(name), <<" ", "a", "n", "d", " ">>)
      s2 == StripHyphens(HyphenateRuns(s1, FALSE))
  IN  IF s2 # << >> THEN s2 ELSE <<"c", "h", "a", "n", "n", "e", "l">>

\* decimal digits of a natural number, as f"{i}" prints it
RECURSIVE Decimal(_)
Decimal(i) ==
  LET digits == <<"0","1","2","3","4","5","6","7","8","9">>
  IN  IF i < 10 THEN <<digits[i + 1]>>
      ELSE Decimal(i \div 10) \o <<digits[(i % 10) + 1]>>

----------------------------------------------------------------------------
(* Optional values and dictionaries *)

None == << >>
Some(x) == <<x>>

EmptyDict == [k \in {} |-> << >>]

\* dict.get(k): None when the key is absent
Get(d, k) == IF k \in DOMAIN d THEN Some(d[k]) ELSE None

\* dict.get(k, []) for dictionaries of lists
GetList(d, k) == IF k \in DOMAIN d THEN d[k] ELSE << >>

\* dict.get(k, 0) for counters
GetCount(d, k) == IF k \in DOMAIN d THEN d[k] ELSE 0

\* d[k] = v
Put(d, k, v) == [x \in DOMAIN d \cup {k} |-> IF x = k THEN v ELSE d[x]]

----------------------------------------------------------------------------
(* Stable sort by an integer key, as list.sort(key=...) *)

\* items are records with a field k; x goes after every item with key <= x.k
RECURSIVE InsertStable(_, _)
InsertStable(sorted, x) ==
  IF sorted = << >> THEN <<x>>
  ELSE IF Head(sorted).k <= x.k
       THEN <<Head(sorted)>> \o InsertStable(Tail(sorted), x)
       ELSE <<x>> \o sorted

RECURSIVE StableSort(_)
StableSort(items) ==
  IF items = << >> THEN << >>
  ELSE InsertStable(StableSort(SubSeq(items, 1, Len(items) - 1)),
                    items[Len(items)])

----------------------------------------------------------------------------
(* Parsing *)

ChannelMeta(id, name, logo) == [id |-> id, name |-> name, logo |-> logo]

Programme(start_utc, end_utc, title, show_logo) ==
  [start_utc |-> start_utc, end_utc |-> end_utc,
   title |-> title, show_logo |-> show_logo]

\* name_index.setdefault(key, []).append(cid) for every key of keys
IndexAppend(idx, keys, cid) ==
  [k \in DOMAIN idx \cup keys |->
     IF k \in keys THEN GetList(idx, k) \o <<cid>> ELSE idx[k]]

\* one <channel> element: id attribute ("" when absent), optional
\* display-name text, optional icon src
ParseChannelElem(acc, elem) ==
  LET cid     == elem.id
      display == IF elem.name = None THEN << >> ELSE strip(elem.name[1])
      logo    == IF elem.icon = None THEN "" ELSE elem.icon[1]
      n       == normalize_name(display)
      keys    == {n, base_name_no_hd(n)} \ {<< >>}
  IN  IF cid = "" THEN acc
      ELSE [by_id |-> Put(acc.by_id, cid, ChannelMeta(cid, display, logo)),
            name_index |-> IndexAppend(acc.name_index, keys, cid)]

RECURSIVE ParseChannelsFrom(_, _)
ParseChannelsFrom(elems, acc) ==
  IF elems = << >> THEN acc
  ELSE ParseChannelsFrom(Tail(elems), ParseChannelElem(acc, Head(elems)))

parse_channels(xml) ==
  ParseChannelsFrom(xml.channels, [by_id |-> EmptyDict, name_index |-> EmptyDict])

\* datetime.strptime of a raw timestamp against one layout: the instant, or
\* None when strptime raises
Strptime(raw, layout) == IF raw.layout = layout THEN Some(raw.t) ELSE None

\* lines 274-285: both attributes with the spaced layout, else both with the
\* unspaced layout, else the element is skipped
ParseTimes(start_raw, stop_raw) ==
  LET s1 == Strptime(start_raw, "space")
      e1 == Strptime(stop_raw, "space")
      s2 == Strptime(start_raw, "nospace")
      e2 == Strptime(stop_raw, "nospace")
  IN  IF s1 # None /\ e1 # None THEN Some([start |-> s1[1], end |-> e1[1]])
      ELSE IF s2 # None /\ e2 # None THEN Some([start |-> s2[1], end |-> e2[1]])
      ELSE None

ParseProgrammeElem(out, elem, wanted_ids) ==
  LET cid   == elem.channel
      times == ParseTimes(elem.start, elem.stop)
      title == IF elem.title = None THEN << >> ELSE strip(elem.title[1])
      logo  == IF elem.icon = None THEN "" ELSE elem.icon[1]
  IN  IF cid \notin wanted_ids THEN out
      ELSE IF times = None THEN out
      ELSE Put(out, cid,
               GetList(out, cid)
                 \o <<Programme(times[1].start, times[1].end, title, logo)>>)

\* variant: the first element whose timestamps do not parse ends the parse of
\* the feed
RECURSIVE ParseProgrammesFrom_abort(_, _, _)
ParseProgrammesFrom_abort(elems, out, wanted_ids) ==
  IF elems = << >> THEN out
  ELSE IF ParseTimes(Head(elems).start, Head(elems).stop) = None THEN out
  ELSE ParseProgrammesFrom_abort(Tail(elems),
                                 ParseProgrammeElem(out, Head(elems), wanted_ids),
                                 wanted_ids)

RECURSIVE ParseProgrammesFrom(_, _, _)
ParseProgrammesFrom(elems, out, wanted_ids) ==
  IF elems = << >> THEN out
  ELSE ParseProgrammesFrom(Tail(elems),
                           ParseProgrammeElem(out, Head(elems), wanted_ids),
                           wanted_ids)

\* variant: the lists are left in the order of the feed
SortByStart_feed_order(progs) == progs

\* out[cid].sort(key=lambda p: p.start_utc)
SortByStart(progs) ==
  LET keyed  == [i \in 1..Len(progs) |-> [k |-> progs[i].start_utc, v |-> progs[i]]]
      sorted == StableSort(keyed)
  IN  [i \in 1..Len(sorted) |-> sorted[i].v]

parse_programmes_for_ids(xml, wanted_ids) ==
  LET out == ParseProgrammesFrom(xml.programmes,
                                 [cid \in wanted_ids |-> << >>], wanted_ids)
  IN  [cid \in DOMAIN out |-> SortByStart(out[cid])]

----------------------------------------------------------------------------
(* Matching logic *)

Candidates(target_name) ==
  LET t_norm == normalize_name(target_name)
      t_base == base_name_no_hd(t_norm)
  IN  <<t_norm, t_base, t_base \o <<"h", "d">>, t_norm \o <<"h", "d">>>>

\* the loop "for c in candidates: ids = idx.get(c); if ids: ... ids[0]"
RECURSIVE FirstHit(_, _)
FirstHit(candidates, idx) ==
  IF candidates = << >> THEN None
  ELSE IF Head(candidates) \in DOMAIN idx /\ idx[Head(candidates)] # << >>
       THEN Some(idx[Head(candidates)][1])
       ELSE FirstHit(Tail(candidates), idx)

\* variant: the fallback index is scanned before the primary one
choose_fallback_first(target_name, jio_ids, jio_index, tata_ids, tata_index) ==
  LET candidates == Candidates(target_name)
      jio_hit    == FirstHit(candidates, jio_index)
      tata_hit   == FirstHit(candidates, tata_index)
  IN  IF tata_hit # None
      THEN [src |-> "tata", meta |-> Get(tata_ids, tata_hit[1])]
      ELSE IF jio_hit # None
      THEN [src |-> "jio", meta |-> Get(jio_ids, jio_hit[1])]
      ELSE [src |-> "none", meta |-> None]

choose_channel_for_target(target_name, jio_ids, jio_index, tata_ids, tata_index) ==
  LET candidates == Candidates(target_name)
      jio_hit    == FirstHit(candidates, jio_index)
      tata_hit   == FirstHit(candidates, tata_index)
  IN  IF jio_hit # None
      THEN [src |-> "jio", meta |-> Get(jio_ids, jio_hit[1])]
      ELSE IF tata_hit # None
      THEN [src |-> "tata", meta |-> Get(tata_ids, tata_hit[1])]
      ELSE [src |-> "none", meta |-> None]

----------------------------------------------------------------------------
(* Day windows and time labels *)

\* minutes in timedelta(days=1)
Day == 1440

\* variant: the window is the 24 hours that begin at the clock reading
local_day_window_rolling(now_ist, day_offset) ==
  [start |-> now_ist + day_offset * Day, end |-> now_ist + day_offset * Day + Day,
   label |-> (now_ist \div Day) + day_offset]

\* (start_local, end_local, target_date.isoformat()); the date label is the
\* number of the day, day 0 being the day of the run
local_day_window_ist(now_ist, day_offset) ==
  LET target_date == (now_ist \div Day) + day_offset
  IN  [start |-> target_date * Day, end |-> target_date * Day + Day,
       label |-> target_date]

\* variant: closed intervals, touching end points count as overlap
overlaps_closed(a_start, a_end, b_start, b_end) ==
  (a_start <= b_end) /\ (a_end >= b_start)

overlaps(a_start, a_end, b_start, b_end) ==
  (a_start < b_end) /\ (a_end > b_start)

\* strftime("%I:%M %p").lstrip("0"): hour 1..12 without leading zero, minute,
\* AM/PM marker of the IST wall clock
format_time_12h(t) ==
  LET tod == t % Day
      h24 == tod \div 60
  IN  [h |-> IF h24 % 12 = 0 THEN 12 ELSE h24 % 12,
       m |-> tod % 60,
       ap |-> IF h24 < 12 THEN "AM" ELSE "PM"]

\* datetime.strptime(label, "%I:%M %p"): minutes after 1900-01-01 00:00
LabelSortKey(label) ==
  ((label.h % 12) + (IF label.ap = "PM" THEN 12 ELSE 0)) * 60 + label.m

\* rows.sort(key=lambda r: datetime.strptime(r["start_time"], "%I:%M %p"))
SortRows(rows) ==
  LET keyed  == [i \in 1..Len(rows) |->
                   [k |-> LabelSortKey(rows[i].start_time), v |-> rows[i]]]
      sorted == StableSort(keyed)
  IN  [i \in 1..Len(sorted) |-> sorted[i].v]

----------------------------------------------------------------------------
(* Logo files *)

\* a file assets/<dir>/<file>.webp
AssetPath(dir, file) == [dir |-> dir, file |-> file]

\* f"{show_slug}-{i}"
NumberedSlug(slug, i) == slug \o <<"-">> \o Decimal(i)

\* lines 199-207: the first show_slug-i.webp, i = 2, 3, ..., that does not exist
RECURSIVE FirstFreeAlt(_, _, _, _)
FirstFreeAlt(dir, show_slug, i, files) ==
  IF AssetPath(dir, NumberedSlug(show_slug, i)) \notin files
  THEN AssetPath(dir, NumberedSlug(show_slug, i))
  ELSE FirstFreeAlt(dir, show_slug, i + 1, files)

\* what the network and the image library do with one logo URL:
\*   "written"       the bytes are fetched and a .webp file is written
\*   "fetch_failed"  http_get_bytes returns None (URLError, HTTPError, timeout)
\*   "decode_failed" load_image_from_bytes returns None
\*   "not_encoded"   every encoding attempt of save_webp_under_size raises,
\*                   so nothing is written and it returns False
LogoOutcomes == {"written", "fetch_failed", "decode_failed", "not_encoded"}

\* the saved path (or None) and the files existing afterwards
download_and_compress_logo(url, channel_slug, show_slug, outcome, files) ==
  LET first    == AssetPath(channel_slug, show_slug)
      out_path == IF first \in files
                  THEN FirstFreeAlt(channel_slug, show_slug, 2, files)
                  ELSE first
  IN  IF url = "" THEN [saved |-> None, files |-> files]
      ELSE IF outcome = "fetch_failed" THEN [saved |-> None, files |-> files]
      ELSE IF outcome = "decode_failed" THEN [saved |-> None, files |-> files]
      ELSE IF outcome = "not_encoded" THEN [saved |-> Some(out_path), files |-> files]
      ELSE [saved |-> Some(out_path), files |-> files \cup {out_path}]

\* lines 474-482: the first of base_slug, base_slug-2, base_slug-3, ... that is
\* neither in seen_show_filenames nor an existing file of the channel
RECURSIVE FreeShowSlug(_, _, _, _, _, _)
FreeShowSlug(base_slug, show_slug, i, seen, channel_slug, files) ==
  IF show_slug \in seen \/ AssetPath(channel_slug, show_slug) \in files
  THEN FreeShowSlug(base_slug, NumberedSlug(base_slug, i), i + 1, seen,
                    channel_slug, files)
  ELSE show_slug

----------------------------------------------------------------------------
(* Target list *)

\* [line.strip() for line in f if line.strip()]
RECURSIVE StripLines(_)
StripLines(lines) ==
  IF lines = << >> THEN << >>
  ELSE (IF strip(Head(lines)) # << >> THEN <<strip(Head(lines))>> ELSE << >>)
       \o StripLines(Tail(lines))

\* lines 356-362: first occurrence of every lower-cased name
RECURSIVE DedupTargets(_, _)
DedupTargets(targets_raw, seen) ==
  IF targets_raw = << >> THEN << >>
  ELSE IF lower(Head(targets_raw)) \in seen
       THEN DedupTargets(Tail(targets_raw), seen)
       ELSE <<Head(targets_raw)>>
            \o DedupTargets(Tail(targets_raw), seen \cup {lower(Head(targets_raw))})

\* lines 385-389: selections and wanted_ids_by_source after the loop
RECURSIVE ResolveAll(_, _, _, _, _, _)
ResolveAll(ts, acc, jio_ids, jio_index, tata_ids, tata_index) ==
  IF ts = << >> THEN acc
  ELSE LET t   == Head(ts)
           sel == choose_channel_for_target(t, jio_ids, jio_index, tata_ids, tata_index)
           add == IF sel.src \in {"jio", "tata"} /\ sel.meta # None
                  THEN {sel.meta[1].id} ELSE {}
       IN  ResolveAll(Tail(ts),
                      [selections |-> Put(acc.selections, lower(t), sel),
                       wanted |-> [x \in {"jio", "tata"} |->
                                     IF x = sel.src THEN acc.wanted[x] \cup add
                                     ELSE acc.wanted[x]]],
                      jio_ids, jio_index, tata_ids, tata_index)

----------------------------------------------------------------------------
(* State of one run of main() *)

VARIABLES
  pc,                    \* position in main()
  exit_code,             \* process exit status, -1 while running
  filter_exists,         \* filter.txt is present
  filter_txt,            \* its lines
  jio_feed, tata_feed,   \* the documents the two URLs serve
  clock,                 \* what datetime.now(IST) returns at its two calls
  http_gets,             \* number of GETs issued so far, per logo URL
  targets,
  jio_bytes, tata_bytes,
  jio_by_id, jio_idx, tata_by_id, tata_idx,
  selections, wanted_ids_by_source,
  jio_prog, tata_prog,
  today, tomorrow,       \* (start, end, label) of the two windows
  dirs,                  \* directories created by os.makedirs in main
  out_files,             \* per output directory: file name (slug) -> record
  asset_files,           \* logo files under assets/
  downloaded_map,
  ti, di, pi,            \* loop positions: target, day, programme
  lst, rows, seen_show_filenames,
  data                   \* the record last passed to json.dump

inputs == <<filter_exists, filter_txt, jio_feed, tata_feed, clock>>
tables == <<jio_by_id, jio_idx, tata_by_id, tata_idx>>
resolved == <<selections, wanted_ids_by_source>>
progs == <<jio_prog, tata_prog>>
windows == <<today, tomorrow>>
loop == <<ti, di, pi, lst, rows, seen_show_filenames>>
fetched == <<jio_bytes, tata_bytes>>
logos == <<http_gets, asset_files, downloaded_map>>

\* everything main() of scripts/fetch_epg.py reads or writes
fetch_epg == <<pc, exit_code, inputs, targets, fetched, tables, resolved, progs,
               windows, dirs, out_files, logos, loop, data>>

----------------------------------------------------------------------------
(* State of the other entry points of the repository.  Each is a program   *)
(* of its own: a step of one leaves the state of the others unchanged.      *)

\* one call of save_webp_under_size (scripts/fetch_epg.py)
VARIABLES
  wp_enc,                \* per (scale, quality): size of the encoding, or None
  wp_pc,
  wp_si, wp_qi,          \* positions in DOWNSCALE_FACTORS and QUALITY_STEPS
  best_data, best_len,
  wp_tried,              \* the (scale, quality) pairs passed to cand.save so far
  wp_file,               \* content of out_path, None while it does not exist
  wp_ret                 \* return value, None while running

webp == <<wp_enc, wp_pc, wp_si, wp_qi, best_data, best_len, wp_tried, wp_file,
          wp_ret>>

\* two calls of normalize_name (scripts/fetch_epg.py)
VARIABLES
  nm_names,              \* the two arguments
  nm_keys                \* the two results, None before the calls

names == <<nm_names, nm_keys>>

\* one run of main() of epg_scraper.py
VARIABLES
  sc_pc,
  filter_names,          \* what filter.txt holds, lower-cased
  sc_feeds,              \* per source: the parsed document, None if it fails
  sc_src,                \* position in EPG_SOURCES
  aggregated,            \* the items of the dict, in insertion order
  sc_i,                  \* position in aggregated.items()
  sc_files               \* per data directory: file name -> record

scraper == <<sc_pc, filter_names, sc_feeds, sc_src, aggregated, sc_i, sc_files>>

\* one run of process_indian_filters of epg_importer_filtered.py
VARIABLES
  im_pc,                 \* position of the main thread
  filters_map,           \* items of the dict, in order: (name_key, out_filename)
  jio_map, tata_map,
  im_k,                  \* position in filters_map.items()
  futures,               \* the tasks submitted to img_exec, in order
  im_assets,             \* files under assets/: path -> number of writes
  im_gets,               \* per source URL: completed download + compress runs
  im_out                 \* output path -> record

importer == <<im_pc, filters_map, jio_map, tata_map, im_k, futures, im_assets,
              im_gets, im_out>>

companions == <<webp, names, scraper, importer>>

\* the state of an entry point that is not run
WebpIdle ==
  /\ wp_enc = << >>
  /\ wp_pc = "idle"
  /\ wp_si = 0
  /\ wp_qi = 0
  /\ best_data = None
  /\ best_len = None
  /\ wp_tried = << >>
  /\ wp_file = None
  /\ wp_ret = None

NamesIdle ==
  /\ nm_names = << >>
  /\ nm_keys = None

ScraperIdle ==
  /\ sc_pc = "idle"
  /\ filter_names = {}
  /\ sc_feeds = << >>
  /\ sc_src = 0
  /\ aggregated = << >>
  /\ sc_i = 0
  /\ sc_files = << >>

ImporterIdle ==
  /\ im_pc = "idle"
  /\ filters_map = << >>
  /\ jio_map = << >>
  /\ tata_map = << >>
  /\ im_k = 0
  /\ futures = << >>
  /\ im_assets = EmptyDict
  /\ im_gets = EmptyDict
  /\ im_out = EmptyDict

vars == <<fetch_epg, companions>>

\* datetime.now(IST) while the run computes its windows: 10:00 on day 0
NowIST == 600

\* a run in which both calls of datetime.now(IST) return 10:00 on day 0
FixedClock == clock = <<NowIST, NowIST>>

----------------------------------------------------------------------------
(* Accessors of the main loop *)

CurTarget == targets[ti]
CurSel == selections[lower(CurTarget)]
CurMeta == CurSel.meta[1]
DaySpecs == <<[win |-> today, out_dir |-> "output-today"],
              [win |-> tomorrow, out_dir |-> "output-tomorrow"]>>
CurDay == DaySpecs[di]

\* variant: the programmes of every wanted channel of the source, whatever
\* their channel id
RECURSIVE AllLists(_, _)
AllLists(d, ids) ==
  IF ids = {} THEN << >>
  ELSE LET c == CHOOSE x \in ids : TRUE
       IN  d[c] \o AllLists(d, ids \ {c})

ProgsList_all(sel) ==
  LET d == IF sel.src = "jio" THEN jio_prog ELSE tata_prog
  IN  AllLists(d, DOMAIN d)

\* lines 428-434
ProgsList(sel) ==
  GetList(IF sel.src = "jio" THEN jio_prog ELSE tata_prog, sel.meta[1].id)
FallbackList(sel) ==
  IF sel.src = "jio" THEN GetList(tata_prog, sel.meta[1].id) ELSE << >>
\* variant: the record is named after the line of filter.txt
ChannelName_target(t, sel) == t

ChannelName(t, sel) == IF sel.meta[1].name # << >> THEN sel.meta[1].name ELSE t
ChannelLogo(sel) == sel.meta[1].logo
ChannelSlug(t, sel) == slugify(ChannelName(t, sel))

HasAny(list, win) ==
  \E i \in 1..Len(list) :
     overlaps(list[i].start_utc, list[i].end_utc, win.start, win.end)

\* variant: the fallback is taken for both days as soon as the primary list
\* misses one of them
DayList_once(sel, win) ==
  IF /\ sel.src = "jio"
     /\ (~HasAny(ProgsList(sel), today) \/ ~HasAny(ProgsList(sel), tomorrow))
     /\ FallbackList(sel) # << >>
  THEN FallbackList(sel)
  ELSE ProgsList(sel)

\* lines 442-449: the list the day's rows are built from
DayList(sel, win) ==
  IF sel.src = "jio" /\ ~HasAny(ProgsList(sel), win) /\ FallbackList(sel) # << >>
  THEN FallbackList(sel)
  ELSE ProgsList(sel)

\* lines 490-495
Row(p) ==
  [title |-> p.title,
   start_time |-> format_time_12h(p.start_utc),
   end_time |-> format_time_12h(p.end_utc),
   show_logo |-> p.show_logo]

Record(name, logo, date, programs) ==
  [channel_name |-> name, channel_logo |-> logo, date |-> date,
   programs |-> programs]

\* json.dump of rec into out_dir/<file>.json
WriteJson(files, out_dir, file, rec) ==
  [files EXCEPT ![out_dir] = Put(@, file, rec)]

----------------------------------------------------------------------------
(* Steps of main() *)

\* a run that creates its output directories before it looks for filter.txt
FilterMissing_late ==
  /\ pc = "start"
  /\ ~filter_exists
  /\ dirs' = dirs \cup {"output-today", "output-tomorrow", "assets"}
  /\ pc' = "exit"
  /\ exit_code' = 1
  /\ UNCHANGED <<companions, inputs, targets, fetched, tables, resolved, progs,
                 windows, out_files, logos, loop, data>>

\* lines 350-352
FilterMissing ==
  /\ pc = "start"
  /\ ~filter_exists
  /\ pc' = "exit"
  /\ exit_code' = 1
  /\ UNCHANGED <<companions, inputs, targets, fetched, tables, resolved, progs, windows,
                 dirs, out_files, logos, loop, data>>

\* lines 354-364
LoadTargets ==
  /\ pc = "start"
  /\ filter_exists
  /\ targets' = DedupTargets(StripLines(filter_txt), {})
  /\ pc' = "fetch_jio"
  /\ UNCHANGED <<companions, exit_code, inputs, fetched, tables, resolved, progs, windows,
                 dirs, out_files, logos, loop, data>>

\* line 367, urlopen returns the document
FetchJio ==
  /\ pc = "fetch_jio"
  /\ jio_bytes' = Some(jio_feed)
  /\ pc' = "fetch_tata"
  /\ UNCHANGED <<companions, exit_code, inputs, targets, tata_bytes, tables, resolved,
                 progs, windows, dirs, out_files, logos, loop, data>>

\* line 371
FetchTata ==
  /\ pc = "fetch_tata"
  /\ tata_bytes' = Some(tata_feed)
  /\ pc' = "parse_channels"
  /\ UNCHANGED <<companions, exit_code, inputs, targets, jio_bytes, tables, resolved,
                 progs, windows, dirs, out_files, logos, loop, data>>

\* lines 75-77, 367, 371: urlopen raises (URLError, timeout, ...); nothing in
\* fetch_gz or main catches it, so the interpreter exits with a traceback
FetchFails ==
  /\ pc \in {"fetch_jio", "fetch_tata"}
  /\ pc' = "crashed"
  /\ exit_code' = 1
  /\ UNCHANGED <<companions, inputs, targets, fetched, tables, resolved, progs, windows,
                 dirs, out_files, logos, loop, data>>

\* lines 75-77, 367, 371: urlopen(url) is called without a timeout and the
\* default socket timeout is None, so when the server accepts the connection
\* and never answers, the read waits for ever and main() goes no further
FetchBlocks ==
  /\ pc \in {"fetch_jio", "fetch_tata"}
  /\ pc' = "blocked"
  /\ UNCHANGED <<companions, exit_code, inputs, targets, fetched, tables,
                 resolved, progs, windows, dirs, out_files, logos, loop, data>>

\* lines 374-380
ParseChannels ==
  /\ pc = "parse_channels"
  /\ LET j == parse_channels(jio_bytes[1])
         t == parse_channels(tata_bytes[1])
     IN  /\ jio_by_id' = j.by_id
         /\ jio_idx' = j.name_index
         /\ tata_by_id' = t.by_id
         /\ tata_idx' = t.name_index
  /\ pc' = "resolve"
  /\ UNCHANGED <<companions, exit_code, inputs, targets, fetched, resolved, progs, windows,
                 dirs, out_files, logos, loop, data>>

\* lines 382-390
ResolveTargets ==
  /\ pc = "resolve"
  /\ LET r == ResolveAll(targets,
                         [selections |-> EmptyDict,
                          wanted |-> [x \in {"jio", "tata"} |-> {}]],
                         jio_by_id, jio_idx, tata_by_id, tata_idx)
     IN  /\ selections' = r.selections
         /\ wanted_ids_by_source' = r.wanted
  /\ pc' = "parse_programmes"
  /\ UNCHANGED <<companions, exit_code, inputs, targets, fetched, tables, progs, windows,
                 dirs, out_files, logos, loop, data>>

\* lines 392-395
ParseProgrammes ==
  /\ pc = "parse_programmes"
  /\ jio_prog' = parse_programmes_for_ids(jio_bytes[1], wanted_ids_by_source["jio"])
  /\ tata_prog' = parse_programmes_for_ids(tata_bytes[1], wanted_ids_by_source["tata"])
  /\ pc' = "prepare_output"
  /\ UNCHANGED <<companions, exit_code, inputs, targets, fetched, tables, resolved, windows,
                 dirs, out_files, logos, loop, data>>

\* lines 397-407
PrepareOutput ==
  /\ pc = "prepare_output"
  /\ today' = local_day_window_ist(clock[1], 0)
  /\ tomorrow' = local_day_window_ist(clock[2], 1)
  /\ dirs' = dirs \cup {"output-today", "output-tomorrow", "assets"}
  /\ downloaded_map' = EmptyDict
  /\ ti' = 1
  /\ pc' = "target_loop"
  /\ UNCHANGED <<companions, exit_code, inputs, targets, fetched, tables, resolved, progs,
                 out_files, http_gets, asset_files, di, pi, lst, rows,
                 seen_show_filenames, data>>

\* lines 412-426: both placeholder records of an unresolved target
WritePlaceholders ==
  /\ pc = "target_loop"
  /\ ti <= Len(targets)
  /\ CurSel.src = "none" \/ CurSel.meta = None
  /\ LET rec1 == Record(CurTarget, "", today.label, << >>)
         rec2 == Record(CurTarget, "", tomorrow.label, << >>)
         f1   == WriteJson(out_files, "output-today", slugify(CurTarget), rec1)
     IN  /\ out_files' = WriteJson(f1, "output-tomorrow", slugify(CurTarget), rec2)
         /\ data' = Some(rec2)
  /\ ti' = ti + 1
  /\ UNCHANGED <<companions, pc, exit_code, inputs, targets, fetched, tables, resolved, progs,
                 windows, dirs, logos, di, pi, lst, rows, seen_show_filenames>>

\* lines 442-454: the head of one iteration of the day loop
EnterDay(d) ==
  /\ di' = d
  /\ lst' = DayList(CurSel, DaySpecs[d].win)
  /\ rows' = << >>
  /\ seen_show_filenames' = {}
  /\ pi' = 1
  /\ pc' = "prog_loop"

\* lines 428-441: a resolved target, up to the first day's programme loop
BeginTarget ==
  /\ pc = "target_loop"
  /\ ti <= Len(targets)
  /\ ~(CurSel.src = "none" \/ CurSel.meta = None)
  /\ EnterDay(1)
  /\ UNCHANGED <<companions, exit_code, inputs, targets, fetched, tables, resolved, progs,
                 windows, dirs, out_files, logos, ti, data>>

CurProg == lst[pi]
CurOverlaps ==
  overlaps(CurProg.start_utc, CurProg.end_utc, CurDay.win.start, CurDay.win.end)

\* lines 456-460
SkipProgramme ==
  /\ pc = "prog_loop"
  /\ pi <= Len(lst)
  /\ ~CurOverlaps
  /\ pi' = pi + 1
  /\ UNCHANGED <<companions, pc, exit_code, inputs, targets, fetched, tables, resolved, progs,
                 windows, dirs, out_files, logos, ti, di, lst, rows,
                 seen_show_filenames, data>>

\* lines 462-471, 490-495: no logo URL, or a URL already in downloaded_map
RowWithoutDownload ==
  /\ pc = "prog_loop"
  /\ pi <= Len(lst)
  /\ CurOverlaps
  /\ CurProg.show_logo = "" \/ CurProg.show_logo \in DOMAIN downloaded_map
  /\ rows' = Append(rows, Row(CurProg))
  /\ pi' = pi + 1
  /\ UNCHANGED <<companions, pc, exit_code, inputs, targets, fetched, tables, resolved, progs,
                 windows, dirs, out_files, logos, ti, di, lst,
                 seen_show_filenames, data>>

\* lines 472-495: the URL is not cached, download_and_compress_logo is called
RowWithDownload ==
  /\ pc = "prog_loop"
  /\ pi <= Len(lst)
  /\ CurOverlaps
  /\ CurProg.show_logo # ""
  /\ CurProg.show_logo \notin DOMAIN downloaded_map
  /\ \E outcome \in LogoOutcomes :
       LET url          == CurProg.show_logo
           channel_slug == ChannelSlug(CurTarget, CurSel)
           base_slug    == slugify(CurProg.title)
           show_slug    == FreeShowSlug(base_slug, base_slug, 2,
                                        seen_show_filenames, channel_slug,
                                        asset_files)
           res          == download_and_compress_logo(url, channel_slug, show_slug,
                                                      outcome, asset_files)
       IN  /\ asset_files' = res.files
           /\ http_gets' = Put(http_gets, url, GetCount(http_gets, url) + 1)
           /\ IF res.saved # None
              THEN /\ seen_show_filenames' =
                        seen_show_filenames \cup {res.saved[1].file}
                   /\ downloaded_map' = Put(downloaded_map, url, res.saved[1])
              ELSE UNCHANGED <<seen_show_filenames, downloaded_map>>
  /\ rows' = Append(rows, Row(CurProg))
  /\ pi' = pi + 1
  /\ UNCHANGED <<companions, pc, exit_code, inputs, targets, fetched, tables, resolved, progs,
                 windows, dirs, out_files, ti, di, lst, data>>

\* lines 79-85, 210: urlopen or resp.read() raises an exception that
\* http_get_bytes does not catch (ValueError for a URL without scheme,
\* http.client.IncompleteRead, ConnectionResetError); it leaves main
LogoFetchRaises ==
  /\ pc = "prog_loop"
  /\ pi <= Len(lst)
  /\ CurOverlaps
  /\ CurProg.show_logo # ""
  /\ CurProg.show_logo \notin DOMAIN downloaded_map
  /\ http_gets' = Put(http_gets, CurProg.show_logo,
                      GetCount(http_gets, CurProg.show_logo) + 1)
  /\ pc' = "crashed"
  /\ exit_code' = 1
  /\ UNCHANGED <<companions, inputs, targets, fetched, tables, resolved, progs, windows,
                 dirs, out_files, asset_files, downloaded_map, loop, data>>

\* lines 497-509
EndDay ==
  /\ pc = "prog_loop"
  /\ pi > Len(lst)
  /\ LET rec == Record(ChannelName(CurTarget, CurSel), ChannelLogo(CurSel),
                       CurDay.win.label, SortRows(rows))
     IN  /\ rows' = SortRows(rows)
         /\ data' = Some(rec)
         /\ out_files' = WriteJson(out_files, CurDay.out_dir,
                                   ChannelSlug(CurTarget, CurSel), rec)
  /\ pc' = "day_written"
  /\ UNCHANGED <<companions, exit_code, inputs, targets, fetched, tables, resolved, progs,
                 windows, dirs, logos, ti, di, pi, lst, seen_show_filenames>>

\* line 441: the loop moves to tomorrow
NextDay ==
  /\ pc = "day_written"
  /\ di < Len(DaySpecs)
  /\ EnterDay(di + 1)
  /\ UNCHANGED <<companions, exit_code, inputs, targets, fetched, tables, resolved, progs,
                 windows, dirs, out_files, logos, ti, data>>

\* line 409: the loop moves to the next target
NextTarget ==
  /\ pc = "day_written"
  /\ di = Len(DaySpecs)
  /\ ti' = ti + 1
  /\ di' = 0
  /\ pi' = 0
  /\ lst' = << >>
  /\ rows' = << >>
  /\ seen_show_filenames' = {}
  /\ pc' = "target_loop"
  /\ UNCHANGED <<companions, exit_code, inputs, targets, fetched, tables, resolved, progs,
                 windows, dirs, out_files, logos, data>>

\* lines 511-512
Finish ==
  /\ pc = "target_loop"
  /\ ti > Len(targets)
  /\ pc' = "done"
  /\ exit_code' = 0
  /\ UNCHANGED <<companions, inputs, targets, fetched, tables, resolved, progs, windows,
                 dirs, out_files, logos, loop, data>>

Next ==
  \/ FilterMissing
  \/ LoadTargets
  \/ FetchJio
  \/ FetchTata
  \/ FetchFails
  \/ FetchBlocks
  \/ ParseChannels
  \/ ResolveTargets
  \/ ParseProgrammes
  \/ PrepareOutput
  \/ WritePlaceholders
  \/ BeginTarget
  \/ SkipProgramme
  \/ RowWithoutDownload
  \/ RowWithDownload
  \/ LogoFetchRaises
  \/ EndDay
  \/ NextDay
  \/ NextTarget
  \/ Finish

----------------------------------------------------------------------------
(* Inputs of a run *)

\* every sequence over S of length lo..hi
SeqsOf(S, lo, hi) == UNION {[1..n -> S] : n \in lo..hi}

\* names of filter.txt and of the feeds
StarPlus == <<"S", " ", "P">>
StarPlusDash == <<"s", "-", "p">>
StarPlusLower == <<"s", " ", "p">>
StarPlusHD == <<"S", "P", " ", "H", "D">>
Other == <<"Q">>

ChannelElem(id, name, icon) == [id |-> id, name |-> name, icon |-> icon]

Stamp(layout, t) == [layout |-> layout, t |-> t]

ProgrammeElem(channel, start, stop, title, icon) ==
  [channel |-> channel, start |-> Stamp("space", start),
   stop |-> Stamp("space", stop), title |-> title, icon |-> icon]

Feed(channels, programmes) == [channels |-> channels, programmes |-> programmes]

\* programme elements of channel c1: across today's midnight, inside today,
\* stop before start, ending exactly at today's start, starting exactly at
\* today's end
ProgElems ==
  {ProgrammeElem("c1", -30, 30, Some(<<"A">>), Some("u1")),
   ProgrammeElem("c1", 30, 60, Some(<<"B">>), Some("u1")),
   ProgrammeElem("c1", 60, 30, Some(<<"B">>), None),
   ProgrammeElem("c1", -60, 0, None, None),
   ProgrammeElem("c1", Day, Day + 30, Some(<<"A">>), Some("u2"))}

JioChannelLists ==
  {<< >>, <<ChannelElem("c1", Some(StarPlus), Some("logo1"))>>}

TataChannelLists ==
  {<< >>,
   <<ChannelElem("t1", Some(StarPlus), Some("logo2"))>>,
   <<ChannelElem("c1", Some(Other), None)>>}

TataProgrammeLists ==
  {<< >>,
   <<ProgrammeElem("t1", 30, 60, Some(<<"B">>), Some("u1")),
     ProgrammeElem("t1", Day + 30, Day + 60, Some(<<"A">>), None)>>,
   <<ProgrammeElem("c1", Day + 30, Day + 60, Some(<<"A">>), Some("u1"))>>}

FilterFiles == {<<StarPlus>>, <<StarPlus, Other>>, <<StarPlus, StarPlusDash>>}

\* what is common to every run before main() starts
InitRun ==
  /\ pc = "start"
  /\ exit_code = -1
  /\ http_gets = EmptyDict
  /\ targets = << >>
  /\ jio_bytes = None
  /\ tata_bytes = None
  /\ jio_by_id = EmptyDict
  /\ jio_idx = EmptyDict
  /\ tata_by_id = EmptyDict
  /\ tata_idx = EmptyDict
  /\ selections = EmptyDict
  /\ wanted_ids_by_source = [x \in {"jio", "tata"} |-> {}]
  /\ jio_prog = EmptyDict
  /\ tata_prog = EmptyDict
  /\ today = [start |-> 0, end |-> 0, label |-> 0]
  /\ tomorrow = [start |-> 0, end |-> 0, label |-> 0]
  /\ dirs = {}
  /\ out_files = [d \in {"output-today", "output-tomorrow"} |-> EmptyDict]
  /\ asset_files = {}
  /\ downloaded_map = EmptyDict
  /\ ti = 0
  /\ di = 0
  /\ pi = 0
  /\ lst = << >>
  /\ rows = << >>
  /\ seen_show_filenames = {}
  /\ data = None

\* runs over every programme list of the primary feed
Init ==
  /\ InitRun
  /\ FixedClock
  /\ WebpIdle /\ NamesIdle /\ ScraperIdle /\ ImporterIdle
  /\ filter_exists \in BOOLEAN
  /\ filter_txt \in (IF filter_exists THEN FilterFiles ELSE {<< >>})
  /\ \E cs \in JioChannelLists, ps \in SeqsOf(ProgElems, 0, MaxProgs) :
       jio_feed = Feed(cs, ps)
  /\ \E cs \in TataChannelLists, ps \in TataProgrammeLists :
       tata_feed = Feed(cs, ps)

Spec == Init /\ [][Next]_vars

\* names of filter.txt for the runs over every channel table
TargetNames == {StarPlus, StarPlusLower, StarPlusHD, Other}

JioChannelElems ==
  {ChannelElem("c1", Some(StarPlus), Some("logo1")),
   ChannelElem("c2", Some(StarPlusHD), None)}

TataChannelElems ==
  {ChannelElem("t1", Some(StarPlusHD), Some("logo2")),
   ChannelElem("c1", Some(Other), None)}

JioProgrammes ==
  <<ProgrammeElem("c1", -30, 30, Some(<<"A">>), Some("u1")),
    ProgrammeElem("c2", 30, 60, Some(<<"B">>), None)>>

TataProgrammes ==
  <<ProgrammeElem("t1", 30, 60, Some(<<"B">>), None),
    ProgrammeElem("c1", Day + 30, Day + 60, Some(<<"A">>), None)>>

\* runs over every target list and every channel table of the two feeds
InitResolve ==
  /\ InitRun
  /\ FixedClock
  /\ WebpIdle /\ NamesIdle /\ ScraperIdle /\ ImporterIdle
  /\ filter_exists \in BOOLEAN
  /\ filter_txt \in (IF filter_exists THEN SeqsOf(TargetNames, 1, MaxTargets)
                     ELSE {<< >>})
  /\ \E cs \in SeqsOf(JioChannelElems, 0, MaxChannels) :
       jio_feed = Feed(cs, JioProgrammes)
  /\ \E cs \in SeqsOf(TataChannelElems, 0, MaxChannels) :
       tata_feed = Feed(cs, TataProgrammes)

SpecResolve == InitResolve /\ [][Next]_vars

----------------------------------------------------------------------------
(* The entry points are run one at a time: main() of scripts/fetch_epg.py  *)
(* is not started in the runs of the others.                                *)

MainIdle ==
  /\ InitRun
  /\ FixedClock
  /\ filter_exists = FALSE
  /\ filter_txt = << >>
  /\ jio_feed = Feed(<< >>, << >>)
  /\ tata_feed = Feed(<< >>, << >>)

----------------------------------------------------------------------------
(* normalize_name on pairs of spellings of one name *)

MaxEdits == 1

StarPlusName == <<"S", "t", "a", "r", " ", "P", "l", "u", "s">>
StarPlusUpper == <<"S", "T", "A", "R", "P", "L", "U", "S">>
StarPlusHyphen == <<"s", "t", "a", "r", "-", "p", "l", "u", "s">>
AAndB == <<"A", " ", "&", " ", "B">>
DottedName == <<"S", ".", "P", "_", "a", "n", "d">>

SpelledNames == {StarPlusName, StarPlusUpper, StarPlusHyphen, AAndB, DottedName}

\* str.swapcase() on one ASCII character
SwapCase(c) ==
  IF \E i \in 1..26 : UpperLetters[i] = c
  THEN LowerLetters[CHOOSE i \in 1..26 : UpperLetters[i] = c]
  ELSE IF \E i \in 1..26 : LowerLetters[i] = c
  THEN UpperLetters[CHOOSE i \in 1..26 : LowerLetters[i] = c]
  ELSE c

Splice(n, i, j, mid) == SubSeq(n, 1, i) \o mid \o SubSeq(n, j, Len(n))

\* the spellings one change away from n: the case of one letter, one
\* separator more or less, one "&" written "and" or one "and" written "&"
Respell(n) ==
  {[n EXCEPT ![i] = SwapCase(n[i])] : i \in 1..Len(n)}
    \cup {Splice(n, i, i + 1, <<s>>) : i \in 0..Len(n), s \in {" ", "-", "_", "."}}
    \cup {Splice(n, i - 1, i + 1, << >>) :
            i \in {j \in 1..Len(n) : n[j] \in {" ", "-", "_", "."}}}
    \cup {Splice(n, i - 1, i + 1, <<"a", "n", "d">>) :
            i \in {j \in 1..Len(n) : n[j] = "&"}}
    \cup {Splice(n, i - 1, i + 3, <<"&">>) :
            i \in {j \in 1..Len(n) - 2 : SubSeq(n, j, j + 2) = <<"a", "n", "d">>}}

RECURSIVE RespellUpTo(_, _)
RespellUpTo(n, k) ==
  IF k = 0 THEN {n}
  ELSE {n} \cup UNION {Respell(m) : m \in RespellUpTo(n, k - 1)}

\* pairs of spellings of one name: the three spellings of "Star Plus" with
\* one another, and every name with its respellings
NamePairs ==
  ({StarPlusName, StarPlusUpper, StarPlusHyphen}
     \X {StarPlusName, StarPlusUpper, StarPlusHyphen})
    \cup UNION {{<<n, m>> : m \in RespellUpTo(n, MaxEdits)} : n \in SpelledNames}

InitNames ==
  /\ MainIdle /\ WebpIdle /\ ScraperIdle /\ ImporterIdle
  /\ nm_names \in NamePairs
  /\ nm_keys = None

\* lines 66-70, on both names
NormalizeNames ==
  /\ nm_keys = None
  /\ nm_keys' = Some(<<normalize_name(nm_names[1]), normalize_name(nm_names[2])>>)
  /\ UNCHANGED <<fetch_epg, webp, scraper, importer, nm_names>>

NextNames == NormalizeNames

SpecNames == InitNames /\ [][NextNames]_vars

----------------------------------------------------------------------------
(* save_webp_under_size: one call, over every outcome of the encoder *)

MaxScales == 2

MAX_BYTES == 10 * 1024

\* the first two quality levels of the list
QUALITY_STEPS == <<85, 70>>

\* the first MaxScales scale factors of the list, in hundredths
DOWNSCALE_FACTORS == SubSeq(<<100, 85, 75, 65, 55, 45, 35, 25>>, 1, MaxScales)

\* what cand.save can do with one (scale, quality): raise (None) or produce
\* an encoding of some length, at the budget or above it
EncodeOutcomes == {None, Some(MAX_BYTES), Some(MAX_BYTES + 1), Some(MAX_BYTES + 2)}

\* the bytes cand.save writes into buf for one (scale, quality)
Encoding(si, qi, size) == [scale |-> si, quality |-> qi, size |-> size]

\* variant: every encoding replaces the best one
BetterThan_last(size, len) == TRUE

\* line 167, best_len starting at float("inf") (line 138)
BetterThan(size, len) == len = None \/ size < len[1]

InitWebp ==
  /\ MainIdle /\ NamesIdle /\ ScraperIdle /\ ImporterIdle
  /\ wp_enc \in [(1..Len(DOWNSCALE_FACTORS)) \X (1..Len(QUALITY_STEPS)) -> EncodeOutcomes]
  /\ wp_pc = "encode"
  /\ wp_si = 1
  /\ wp_qi = 1
  /\ best_data = None
  /\ best_len = None
  /\ wp_tried = << >>
  /\ wp_file = None
  /\ wp_ret = None

\* the two for loops move on to the next (scale, quality)
NextAttempt ==
  /\ wp_tried' = Append(wp_tried, <<wp_si, wp_qi>>)
  /\ IF wp_qi < Len(QUALITY_STEPS)
     THEN /\ wp_qi' = wp_qi + 1
          /\ UNCHANGED <<wp_si, wp_pc>>
     ELSE IF wp_si < Len(DOWNSCALE_FACTORS)
     THEN /\ wp_si' = wp_si + 1
          /\ wp_qi' = 1
          /\ UNCHANGED wp_pc
     ELSE /\ wp_pc' = "exhausted"
          /\ UNCHANGED <<wp_si, wp_qi>>

\* lines 152-162: cand.save raises, "continue"
EncodeRaises ==
  /\ wp_pc = "encode"
  /\ wp_enc[<<wp_si, wp_qi>>] = None
  /\ NextAttempt
  /\ UNCHANGED <<fetch_epg, names, scraper, importer, wp_enc, best_data,
                 best_len, wp_file, wp_ret>>

\* lines 164-174: an encoding within the budget is written and ends the call
EncodeFits ==
  /\ wp_pc = "encode"
  /\ wp_enc[<<wp_si, wp_qi>>] # None
  /\ LET size == wp_enc[<<wp_si, wp_qi>>][1]
         buf  == Encoding(wp_si, wp_qi, size)
     IN  /\ size <= MAX_BYTES
         /\ IF BetterThan(size, best_len)
            THEN best_len' = Some(size) /\ best_data' = Some(buf)
            ELSE UNCHANGED <<best_len, best_data>>
         /\ wp_file' = Some(buf)
  /\ wp_tried' = Append(wp_tried, <<wp_si, wp_qi>>)
  /\ wp_ret' = Some(TRUE)
  /\ wp_pc' = "returned"
  /\ UNCHANGED <<fetch_epg, names, scraper, importer, wp_enc, wp_si, wp_qi>>

\* lines 164-171: an encoding over the budget is remembered if it is the
\* smallest so far
EncodeTooBig ==
  /\ wp_pc = "encode"
  /\ wp_enc[<<wp_si, wp_qi>>] # None
  /\ LET size == wp_enc[<<wp_si, wp_qi>>][1]
         buf  == Encoding(wp_si, wp_qi, size)
     IN  /\ size > MAX_BYTES
         /\ IF BetterThan(size, best_len)
            THEN best_len' = Some(size) /\ best_data' = Some(buf)
            ELSE UNCHANGED <<best_len, best_data>>
  /\ NextAttempt
  /\ UNCHANGED <<fetch_epg, names, scraper, importer, wp_enc, wp_file, wp_ret>>

\* lines 177-180
SaveBestEffort ==
  /\ wp_pc = "exhausted"
  /\ best_data # None
  /\ wp_file' = best_data
  /\ wp_ret' = Some(FALSE)
  /\ wp_pc' = "returned"
  /\ UNCHANGED <<fetch_epg, names, scraper, importer, wp_enc, wp_si, wp_qi,
                 best_data, best_len, wp_tried>>

\* line 182: no encoding was produced at all, nothing is written
NothingEncoded ==
  /\ wp_pc = "exhausted"
  /\ best_data = None
  /\ wp_ret' = Some(FALSE)
  /\ wp_pc' = "returned"
  /\ UNCHANGED <<fetch_epg, names, scraper, importer, wp_enc, wp_si, wp_qi,
                 best_data, best_len, wp_tried, wp_file>>

NextWebp ==
  \/ EncodeRaises
  \/ EncodeFits
  \/ EncodeTooBig
  \/ SaveBestEffort
  \/ NothingEncoded

SpecWebp == InitWebp /\ [][NextWebp]_vars

----------------------------------------------------------------------------
(* epg_scraper.py: the filter-based scraper *)

\* lines 23-36: Tata Play is listed, and so processed, before Jio TV
EPG_SOURCES ==
  <<[name |-> "Tata Play", convert_to_ist |-> TRUE],
    [name |-> "Jio TV", convert_to_ist |-> TRUE]>>

\* characters re.sub(r'[<>:"/\\|?*]', '-', ...) replaces
FilenameSpecials == {"<", ">", ":", "\"", "/", "\\", "|", "?", "*"}

\* lines 42-45: the file name of a channel, ".json" being its last element
sc_sanitize_filename(filename) ==
  LET dashed  == [i \in 1..Len(filename) |->
                    IF filename[i] \in FilenameSpecials THEN "-" ELSE filename[i]]
      lowered == lower(strip(dashed))
  IN  [i \in 1..Len(lowered) |-> IF lowered[i] = " " THEN "-" ELSE lowered[i]]
        \o <<".json">>

\* lines 47-56: the naive datetime of a timestamp, 5:30 later when
\* convert_to_ist is set; strptime raises on any other layout
sc_parse_xmltv_time(raw, convert_to_ist) ==
  IF raw.layout \in {"space", "nospace"}
  THEN Some(raw.t + (IF convert_to_ist THEN 330 ELSE 0))
  ELSE None

\* lines 83-94: channels by id, in the order of first appearance
RECURSIVE ScChannels(_, _)
ScChannels(elems, acc) ==
  IF elems = << >> THEN acc
  ELSE LET e    == Head(elems)
           info == [id |-> e.id,
                    name |-> IF e.name # None THEN e.name[1] ELSE <<e.id>>,
                    logo |-> IF e.icon # None THEN e.icon[1] ELSE ""]
           at   == {i \in 1..Len(acc) : acc[i].id = e.id}
       IN  ScChannels(Tail(elems),
                      IF at = {} THEN Append(acc, info)
                      ELSE [i \in 1..Len(acc) |-> IF i \in at THEN info ELSE acc[i]])

\* lines 96-116: the programmes of one channel id, in document order
ScProgrammes(elems, convert_to_ist, cid) ==
  LET mine == SelectSeq(elems, LAMBDA e : e.channel = cid)
  IN  [i \in 1..Len(mine) |->
         [show_name  |-> IF mine[i].title # None THEN mine[i].title[1]
                         ELSE <<"Unknown Show">>,
          start_time |-> sc_parse_xmltv_time(mine[i].start, convert_to_ist)[1],
          end_time   |-> sc_parse_xmltv_time(mine[i].stop, convert_to_ist)[1],
          show_logo  |-> IF mine[i].icon # None THEN mine[i].icon[1] ELSE ""]]

\* parse_epg_xml returns: no timestamp makes parse_xmltv_time raise
ScParses(doc, convert_to_ist) ==
  \A i \in 1..Len(doc.programmes) :
     /\ sc_parse_xmltv_time(doc.programmes[i].start, convert_to_ist) # None
     /\ sc_parse_xmltv_time(doc.programmes[i].stop, convert_to_ist) # None

\* lines 120-137
filter_programmes_by_date(programmes, target_date) ==
  LET midnight_dt == target_date * Day
      kept(p)  == \/ p.start_time \div Day = target_date
                  \/ /\ p.start_time \div Day = target_date - 1
                     /\ p.end_time \div Day = target_date
                     /\ p.end_time > midnight_dt
      adjusted(p) == IF p.start_time \div Day = target_date THEN p
                     ELSE [p EXCEPT !.start_time = midnight_dt]
      filtered == SelectSeq(programmes, kept)
      keyed    == [i \in 1..Len(filtered) |->
                     [k |-> adjusted(filtered[i]).start_time,
                      v |-> adjusted(filtered[i])]]
      sorted   == StableSort(keyed)
  IN  [i \in 1..Len(sorted) |-> sorted[i].v]

\* lines 139-152: channel_logo is a parameter the record does not use
create_json_schedule(channel_name, channel_logo, programmes, target_date) ==
  [channel_name |-> channel_name,
   date |-> target_date,
   schedule |-> [i \in 1..Len(programmes) |->
                   [show_name  |-> programmes[i].show_name,
                    start_time |-> format_time_12h(programmes[i].start_time),
                    end_time   |-> format_time_12h(programmes[i].end_time),
                    show_logo  |-> programmes[i].show_logo]]]

\* aggregated[norm_name] = entry, the dict keeping the position of a key it
\* already has
AggPut(agg, norm_name, entry) ==
  LET at == {i \in 1..Len(agg) : agg[i].key = norm_name}
      item == [key |-> norm_name, name |-> entry.name, logo |-> entry.logo,
               programmes |-> entry.programmes]
  IN  IF at = {} THEN Append(agg, item)
      ELSE [i \in 1..Len(agg) |-> IF i \in at THEN item ELSE agg[i]]

\* lines 192-207: the channels of one source that are in filter.txt and have
\* programmes are saved, over what an earlier source saved under the name
RECURSIVE MergeSource(_, _, _, _)
MergeSource(agg, chans, doc, convert_to_ist) ==
  IF chans = << >> THEN agg
  ELSE LET ch_info   == Head(chans)
           norm_name == lower(strip(ch_info.name))
           programs  == ScProgrammes(doc.programmes, convert_to_ist, ch_info.id)
       IN  MergeSource(
             IF norm_name \notin filter_names \/ programs = << >> THEN agg
             ELSE AggPut(agg, norm_name,
                         [name |-> ch_info.name, logo |-> ch_info.logo,
                          programmes |-> programs]),
             Tail(chans), doc, convert_to_ist)

\* datetime.now().date(), as a day number
ScToday == NowIST \div Day

\* lines 172-175
ScraperNoFilter ==
  /\ sc_pc = "start"
  /\ filter_names = {}
  /\ sc_pc' = "done"
  /\ UNCHANGED <<fetch_epg, webp, names, importer, filter_names, sc_feeds,
                 sc_src, aggregated, sc_i, sc_files>>

\* lines 172-181
ScraperBegin ==
  /\ sc_pc = "start"
  /\ filter_names # {}
  /\ sc_files' = [d \in {"data/today", "data/tomorrow"} |-> EmptyDict]
  /\ aggregated' = << >>
  /\ sc_src' = 1
  /\ sc_pc' = "sources"
  /\ UNCHANGED <<fetch_epg, webp, names, importer, filter_names, sc_feeds, sc_i>>

\* lines 183-208: one source downloaded, parsed and merged
ProcessSource ==
  /\ sc_pc = "sources"
  /\ sc_src <= Len(EPG_SOURCES)
  /\ sc_feeds[sc_src] # None
  /\ ScParses(sc_feeds[sc_src][1], EPG_SOURCES[sc_src].convert_to_ist)
  /\ aggregated' = MergeSource(aggregated,
                               ScChannels(sc_feeds[sc_src][1].channels, << >>),
                               sc_feeds[sc_src][1],
                               EPG_SOURCES[sc_src].convert_to_ist)
  /\ sc_src' = sc_src + 1
  /\ UNCHANGED <<fetch_epg, webp, names, importer, sc_pc, filter_names, sc_feeds,
                 sc_i, sc_files>>

\* lines 209-210: the download or the parse raises, the source is left out
SourceFails ==
  /\ sc_pc = "sources"
  /\ sc_src <= Len(EPG_SOURCES)
  /\ IF sc_feeds[sc_src] = None THEN TRUE
     ELSE ~ScParses(sc_feeds[sc_src][1], EPG_SOURCES[sc_src].convert_to_ist)
  /\ sc_src' = sc_src + 1
  /\ UNCHANGED <<fetch_epg, webp, names, importer, sc_pc, filter_names, sc_feeds,
                 aggregated, sc_i, sc_files>>

\* lines 212-214
NothingCollected ==
  /\ sc_pc = "sources"
  /\ sc_src > Len(EPG_SOURCES)
  /\ aggregated = << >>
  /\ sc_pc' = "done"
  /\ UNCHANGED <<fetch_epg, webp, names, importer, filter_names, sc_feeds,
                 sc_src, aggregated, sc_i, sc_files>>

\* lines 216-220
BeginWriting ==
  /\ sc_pc = "sources"
  /\ sc_src > Len(EPG_SOURCES)
  /\ aggregated # << >>
  /\ sc_i' = 1
  /\ sc_pc' = "writing"
  /\ UNCHANGED <<fetch_epg, webp, names, importer, filter_names, sc_feeds,
                 sc_src, aggregated, sc_files>>

\* lines 220-238: the files of one collected channel
WriteChannel ==
  /\ sc_pc = "writing"
  /\ sc_i <= Len(aggregated)
  /\ LET ch             == aggregated[sc_i]
         today_progs    == filter_programmes_by_date(ch.programmes, ScToday)
         tomorrow_progs == filter_programmes_by_date(ch.programmes, ScToday + 1)
         filename       == sc_sanitize_filename(ch.name)
         f1 == IF today_progs = << >> THEN sc_files
               ELSE [sc_files EXCEPT !["data/today"] =
                       Put(@, filename,
                           create_json_schedule(ch.name, ch.logo, today_progs, ScToday))]
     IN  sc_files' =
           IF tomorrow_progs = << >> THEN f1
           ELSE [f1 EXCEPT !["data/tomorrow"] =
                   Put(@, filename,
                       create_json_schedule(ch.name, ch.logo, tomorrow_progs,
                                            ScToday + 1))]
  /\ sc_i' = sc_i + 1
  /\ UNCHANGED <<fetch_epg, webp, names, importer, sc_pc, filter_names, sc_feeds,
                 sc_src, aggregated>>

\* lines 240-243
ScraperDone ==
  /\ sc_pc = "writing"
  /\ sc_i > Len(aggregated)
  /\ sc_pc' = "done"
  /\ UNCHANGED <<fetch_epg, webp, names, importer, filter_names, sc_feeds,
                 sc_src, aggregated, sc_i, sc_files>>

NextScraper ==
  \/ ScraperNoFilter
  \/ ScraperBegin
  \/ ProcessSource
  \/ SourceFails
  \/ NothingCollected
  \/ BeginWriting
  \/ WriteChannel
  \/ ScraperDone

\* what read_filter_list returns: the stripped, lower-cased lines
ScFilters == {{}, {lower(StarPlus)}, {lower(StarPlus), lower(Other)}}

\* documents of the Tata Play URL; None: the download fails
ScTataFeeds ==
  {None,
   Some(Feed(<<ChannelElem("t1", Some(StarPlus), Some("logo2"))>>,
             <<ProgrammeElem("t1", 30, 60, Some(<<"B">>), Some("u2"))>>)),
   Some(Feed(<<ChannelElem("t1", Some(StarPlusLower), Some("logo2")),
               ChannelElem("t2", Some(Other), None)>>,
             <<ProgrammeElem("t1", Day + 30, Day + 60, Some(<<"B">>), None),
               ProgrammeElem("t2", -360, -300, Some(<<"T">>), None),
               [ProgrammeElem("t2", 30, 60, Some(<<"T">>), None)
                  EXCEPT !.stop = Stamp("nospace", 60)]>>)),
   Some(Feed(<<ChannelElem("t1", Some(StarPlus), None)>>,
             <<[ProgrammeElem("t1", 30, 60, Some(<<"B">>), None)
                  EXCEPT !.start = Stamp("empty", 0)]>>))}

\* documents of the Jio TV URL: the channel with programmes today, with a
\* programme tomorrow only, and without any programme
ScJioFeeds ==
  {None,
   Some(Feed(<<ChannelElem("c1", Some(StarPlus), Some("logo1"))>>,
             <<ProgrammeElem("c1", 0, 30, Some(<<"A">>), Some("u1")),
               ProgrammeElem("c1", -360, -300, Some(<<"A">>), None)>>)),
   Some(Feed(<<ChannelElem("c1", Some(StarPlus), Some("logo1"))>>,
             <<ProgrammeElem("c1", Day, Day + 30, Some(<<"A">>), Some("u1"))>>)),
   Some(Feed(<<ChannelElem("c1", Some(StarPlus), Some("logo1")),
               ChannelElem("c2", Some(Other), None)>>,
             <<ProgrammeElem("c2", 0, 30, Some(<<"A">>), None)>>))}

InitScraper ==
  /\ MainIdle /\ WebpIdle /\ NamesIdle /\ ImporterIdle
  /\ sc_pc = "start"
  /\ filter_names \in ScFilters
  /\ sc_feeds \in {<<t, j>> : t \in ScTataFeeds, j \in ScJioFeeds}
  /\ sc_src = 0
  /\ aggregated = << >>
  /\ sc_i = 0
  /\ sc_files = << >>

SpecScraper == InitScraper /\ [][NextScraper]_vars

----------------------------------------------------------------------------
(* epg_importer_filtered.py: process_indian_filters and its image workers *)

\* line 24
MAX_WORKERS == 8

\* line 19, in minutes
IST_OFFSET == 330

\* lines 45-49
sanitize_filename(name) ==
  LET dashed  == [i \in 1..Len(name) |->
                    IF name[i] \in FilenameSpecials THEN "-" ELSE name[i]]
      lowered == lower(strip(dashed))
  IN  [i \in 1..Len(lowered) |-> IF lowered[i] = " " THEN "-" ELSE lowered[i]]

\* os.path.join(LOGOS_DIR, sanitize_filename(name) + ".webp"), lines 289-290
LogoLocal(name) == <<"assets/logos/">> \o sanitize_filename(name) \o <<".webp">>

\* os.path.join(SHOWS_DIR, sanitize_filename(title) + ".webp"), lines 298-299
ShowLocal(title) == <<"assets/shows/">> \o sanitize_filename(title) \o <<".webp">>

\* lines 107-112: channels by id, in the order of first appearance
RECURSIVE ImChannels(_, _)
ImChannels(elems, acc) ==
  IF elems = << >> THEN acc
  ELSE LET e    == Head(elems)
           info == [id |-> e.id,
                    name |-> IF e.name # None /\ e.name[1] # << >>
                             THEN strip(e.name[1]) ELSE <<e.id>>,
                    logo |-> IF e.icon # None THEN e.icon[1] ELSE ""]
           at   == {i \in 1..Len(acc) : acc[i].id = e.id}
       IN  ImChannels(Tail(elems),
                      IF at = {} THEN Append(acc, info)
                      ELSE [i \in 1..Len(acc) |-> IF i \in at THEN info ELSE acc[i]])

\* lines 114-134 and 137-142: the programmes of one channel id in document
\* order; an element whose timestamp strptime rejects is skipped
ImProgrammes(elems, cid) ==
  LET ok(e) == /\ e.channel = cid
               /\ e.start.layout \in {"space", "nospace"}
               /\ e.stop.layout \in {"space", "nospace"}
      mine  == SelectSeq(elems, ok)
  IN  [i \in 1..Len(mine) |->
         [title |-> IF mine[i].title # None /\ mine[i].title[1] # << >>
                    THEN strip(mine[i].title[1]) ELSE <<"Unknown Show">>,
          start |-> mine[i].start.t,
          stop  |-> mine[i].stop.t,
          icon  |-> IF mine[i].icon # None THEN mine[i].icon[1] ELSE ""]]

\* lines 234-238: the maps of a downloaded text, empty when download_url
\* returned None
prepare_epg_maps(xml_text) ==
  IF xml_text = None THEN Feed(<< >>, << >>) ELSE xml_text[1]

\* lines 216-232: the first channel of the primary map with that name, else
\* the first of the fallback map, with the programmes of its id
build_channel_output(channel_name_key, primary_map, fallback_map) ==
  LET found(m) ==
        LET chans == ImChannels(m.channels, << >>)
            hits  == {i \in 1..Len(chans) :
                        lower(strip(chans[i].name)) = channel_name_key}
        IN  IF hits = {} THEN None
            ELSE LET i == CHOOSE x \in hits : \A y \in hits : x <= y
                 IN  Some([info |-> chans[i],
                           progs |-> ImProgrammes(m.programmes, chans[i].id)])
  IN  IF found(primary_map) # None THEN found(primary_map)
      ELSE found(fallback_map)

\* lines 153-167, dates being day numbers of the parsed (unconverted) instants
filter_programmes_for_date(programmes, target_date) ==
  LET midnight == target_date * Day
      kept(p)  == \/ p.start \div Day = target_date
                  \/ /\ p.start \div Day = target_date - 1
                     /\ p.stop > midnight
      adjusted(p) == IF p.start \div Day = target_date THEN p
                     ELSE [p EXCEPT !.start = midnight]
      result == SelectSeq(programmes, kept)
      keyed  == [i \in 1..Len(result) |->
                   [k |-> adjusted(result[i]).start, v |-> adjusted(result[i])]]
      sorted == StableSort(keyed)
  IN  [i \in 1..Len(sorted) |-> sorted[i].v]

\* lines 147-148
im_format_time(dt) == format_time_12h(dt + IST_OFFSET)

\* lines 300-304: the path written into p['_local_show_logo']
LocalShowLogo(p) == IF p.icon # "" THEN ShowLocal(p.title) ELSE << >>

\* lines 240-253: the record save_json_schedule dumps
JsonSchedule(channel_name, channel_logo_path, date_obj, programmes) ==
  [channel_name |-> channel_name,
   channel_logo |-> channel_logo_path,
   date |-> date_obj,
   schedule |-> [i \in 1..Len(programmes) |->
                   [show_name  |-> programmes[i].title,
                    start_time |-> im_format_time(programmes[i].start),
                    end_time   |-> im_format_time(programmes[i].stop),
                    show_logo  |-> LocalShowLogo(programmes[i])]]]

\* datetime.now().date(), as a day number
ImToday == NowIST \div Day

ImMatch == build_channel_output(filters_map[im_k].name_key,
                                prepare_epg_maps(jio_map), prepare_epg_maps(tata_map))

\* img_exec.submit(download_and_save_image, url, save_path)
Task(url, save_path) == [url |-> url, save_path |-> save_path, st |-> "pending"]

\* lines 262-264
ImporterNoFilters ==
  /\ im_pc = "start"
  /\ filters_map = << >>
  /\ im_pc' = "done"
  /\ UNCHANGED <<fetch_epg, webp, names, scraper, filters_map, jio_map, tata_map,
                 im_k, futures, im_assets, im_gets, im_out>>

\* lines 266-281: both texts downloaded and parsed, the pool created
EnterPool ==
  /\ im_pc = "start"
  /\ filters_map # << >>
  /\ im_k' = 1
  /\ futures' = << >>
  /\ im_pc' = "channel"
  /\ UNCHANGED <<fetch_epg, webp, names, scraper, filters_map, jio_map, tata_map,
                 im_assets, im_gets, im_out>>

\* lines 282-285
ChannelNotFound ==
  /\ im_pc = "channel"
  /\ im_k <= Len(filters_map)
  /\ ImMatch = None
  /\ im_k' = im_k + 1
  /\ UNCHANGED <<fetch_epg, webp, names, scraper, im_pc, filters_map, jio_map,
                 tata_map, futures, im_assets, im_gets, im_out>>

\* lines 288-304: the logo of the channel, then the icon of every programme
\* that has one, are handed to the pool
SubmitTasks ==
  /\ im_pc = "channel"
  /\ im_k <= Len(filters_map)
  /\ ImMatch # None
  /\ LET info   == ImMatch[1].info
         progs_ == ImMatch[1].progs
         logo   == IF info.logo # "" THEN <<Task(info.logo, LogoLocal(info.name))>>
                   ELSE << >>
         iconed == SelectSeq(progs_, LAMBDA p : p.icon # "")
         shows  == [i \in 1..Len(iconed) |->
                      Task(iconed[i].icon, ShowLocal(iconed[i].title))]
     IN  futures' = futures \o logo \o shows
  /\ im_pc' = "write"
  /\ UNCHANGED <<fetch_epg, webp, names, scraper, filters_map, jio_map, tata_map,
                 im_k, im_assets, im_gets, im_out>>

\* lines 306-320: both records of the channel are written
WriteSchedules ==
  /\ im_pc = "write"
  /\ LET info   == ImMatch[1].info
         progs_ == ImMatch[1].progs
         out_filename == filters_map[im_k].out_filename
         chan_logo_local == IF info.logo # "" THEN LogoLocal(info.name) ELSE << >>
         rec(d) == JsonSchedule(info.name, chan_logo_local, d,
                                filter_programmes_for_date(progs_, d))
     IN  im_out' = Put(Put(im_out, <<"indian_channels/today/", out_filename>>,
                           rec(ImToday)),
                       <<"indian_channels/tomorrow/", out_filename>>, rec(ImToday + 1))
  /\ im_k' = im_k + 1
  /\ im_pc' = "channel"
  /\ UNCHANGED <<fetch_epg, webp, names, scraper, filters_map, jio_map, tata_map,
                 futures, im_assets, im_gets>>

\* lines 322-330: as_completed has yielded every future and the pool is
\* shut down
AwaitFutures ==
  /\ im_pc = "channel"
  /\ im_k > Len(filters_map)
  /\ \A i \in 1..Len(futures) : futures[i].st = "done"
  /\ im_pc' = "done"
  /\ UNCHANGED <<fetch_epg, webp, names, scraper, filters_map, jio_map, tata_map,
                 im_k, futures, im_assets, im_gets, im_out>>

\* a free worker thread takes the oldest task that is waiting
Taken(i) ==
  /\ i \in 1..Len(futures)
  /\ futures[i].st = "pending"
  /\ \A j \in 1..(i - 1) : futures[j].st # "pending"
  /\ Cardinality({j \in 1..Len(futures) : futures[j].st = "running"}) < MAX_WORKERS

\* lines 201-202: the file is there already and is returned
TaskReuses ==
  \E i \in 1..Len(futures) :
     /\ Taken(i)
     /\ futures[i].save_path \in DOMAIN im_assets
     /\ futures' = [futures EXCEPT ![i].st = "done"]
     /\ UNCHANGED <<fetch_epg, webp, names, scraper, im_pc, filters_map, jio_map,
                    tata_map, im_k, im_assets, im_gets, im_out>>

\* lines 201-203: the file is not there, the GET is issued
TaskRequests ==
  \E i \in 1..Len(futures) :
     /\ Taken(i)
     /\ futures[i].save_path \notin DOMAIN im_assets
     /\ futures' = [futures EXCEPT ![i].st = "running"]
     /\ UNCHANGED <<fetch_epg, webp, names, scraper, im_pc, filters_map, jio_map,
                    tata_map, im_k, im_assets, im_gets, im_out>>

\* lines 203-209: the image arrives, is compressed and written
TaskSaves ==
  \E i \in 1..Len(futures) :
     /\ futures[i].st = "running"
     /\ im_gets' = Put(im_gets, futures[i].url, GetCount(im_gets, futures[i].url) + 1)
     /\ im_assets' = Put(im_assets, futures[i].save_path,
                         GetCount(im_assets, futures[i].save_path) + 1)
     /\ futures' = [futures EXCEPT ![i].st = "done"]
     /\ UNCHANGED <<fetch_epg, webp, names, scraper, im_pc, filters_map, jio_map,
                    tata_map, im_k, im_out>>

\* lines 210-213: the GET, the compression or the write raises
TaskFails ==
  \E i \in 1..Len(futures) :
     /\ futures[i].st = "running"
     /\ futures' = [futures EXCEPT ![i].st = "done"]
     /\ UNCHANGED <<fetch_epg, webp, names, scraper, im_pc, filters_map, jio_map,
                    tata_map, im_k, im_assets, im_gets, im_out>>

NextImporter ==
  \/ ImporterNoFilters
  \/ EnterPool
  \/ ChannelNotFound
  \/ SubmitTasks
  \/ WriteSchedules
  \/ AwaitFutures
  \/ TaskReuses
  \/ TaskRequests
  \/ TaskSaves
  \/ TaskFails

\* what read_filter returns: (lower-cased name, output file name)
ImFilters ==
  {<< >>,
   <<[name_key |-> lower(StarPlus), out_filename |-> "s-p.json"]>>,
   <<[name_key |-> lower(StarPlus), out_filename |-> "s-p.json"],
     [name_key |-> lower(Other), out_filename |-> "q.json"]>>}

\* texts of the Jio URL; None: download_url failed
ImJioTexts ==
  {None,
   Some(Feed(<<ChannelElem("c1", Some(StarPlus), Some("logo1"))>>,
             <<ProgrammeElem("c1", 30, 60, Some(<<"A">>), Some("u1")),
               ProgrammeElem("c1", Day + 30, Day + 60, Some(<<"A">>), Some("u1"))>>)),
   Some(Feed(<<ChannelElem("c1", Some(StarPlus), None)>>,
             <<ProgrammeElem("c1", -30, 30, Some(<<"A">>), Some("u1")),
               ProgrammeElem("c1", 30, 60, Some(<<"B">>), Some("u1"))>>))}

\* texts of the Tata URL
ImTataTexts ==
  {None,
   Some(Feed(<<ChannelElem("t1", Some(Other), Some("logo2")),
               ChannelElem("t2", Some(StarPlus), None)>>,
             <<ProgrammeElem("t1", 0, 30, Some(<<"B">>), None),
               ProgrammeElem("t2", 0, 30, Some(<<"B">>), None)>>))}

InitImporter ==
  /\ MainIdle /\ WebpIdle /\ NamesIdle /\ ScraperIdle
  /\ im_pc = "start"
  /\ filters_map \in ImFilters
  /\ jio_map \in ImJioTexts
  /\ tata_map \in ImTataTexts
  /\ im_k = 0
  /\ futures = << >>
  /\ im_assets = EmptyDict
  /\ im_gets = EmptyDict
  /\ im_out = EmptyDict

SpecImporter == InitImporter /\ [][NextImporter]_vars

----------------------------------------------------------------------------
(* Runs of main() over every programme list of the primary feed whose      *)
(* elements differ in the layout of their timestamps and in their channel   *)

\* a <programme> element whose start and stop attributes are given with
\* their layouts
StampedElem(channel, start, stop, title, icon) ==
  [channel |-> channel, start |-> start, stop |-> stop, title |-> title,
   icon |-> icon]

\* elements of the wanted channel c1 in both accepted layouts, in the two
\* mixed layouts, with a start or a stop that strptime rejects in both
\* layouts, an element without channel attribute (elem.get("channel", "")
\* gives "") and an element of a channel nobody asked for
StampedElems ==
  {StampedElem("c1", Stamp("space", 30), Stamp("space", 60), Some(<<"B">>), Some("u1")),
   StampedElem("c1", Stamp("nospace", -30), Stamp("nospace", 30), Some(<<"A">>), Some("u1")),
   StampedElem("c1", Stamp("space", 60), Stamp("nospace", 90), Some(<<"C">>), None),
   StampedElem("c1", Stamp("nospace", 90), Stamp("space", 120), Some(<<"D">>), None),
   StampedElem("c1", Stamp("bad", 120), Stamp("space", 150), Some(<<"E">>), None),
   StampedElem("c1", Stamp("space", 150), Stamp("bad", 180), Some(<<"F">>), None),
   StampedElem("", Stamp("space", 180), Stamp("space", 210), Some(<<"G">>), None),
   StampedElem("c9", Stamp("space", 210), Stamp("space", 240), Some(<<"H">>), None)}

InitProgrammes ==
  /\ InitRun
  /\ FixedClock
  /\ WebpIdle /\ NamesIdle /\ ScraperIdle /\ ImporterIdle
  /\ filter_exists \in BOOLEAN
  /\ filter_txt = (IF filter_exists THEN <<StarPlus, Other>> ELSE << >>)
  /\ \E ps \in SeqsOf(StampedElems, 0, MaxProgs) :
       jio_feed = Feed(<<ChannelElem("c1", Some(StarPlus), Some("logo1"))>>, ps)
  /\ tata_feed = Feed(<<ChannelElem("t1", Some(StarPlusHD), Some("logo2"))>>,
                      <<ProgrammeElem("t1", 30, 60, Some(<<"B">>), None)>>)

SpecProgrammes == InitProgrammes /\ [][Next]_vars

----------------------------------------------------------------------------
(* Runs of main() over every channel table of the primary feed whose       *)
(* elements lack an id, a display name or an icon, or repeat an id          *)

\* <channel> elements: complete, an HD variant without icon, the id c1 again
\* under another name, no id attribute, no display-name child, a display name
\* of white space only
ChannelElems ==
  {ChannelElem("c1", Some(StarPlus), Some("logo1")),
   ChannelElem("c2", Some(StarPlusHD), None),
   ChannelElem("c1", Some(Other), None),
   ChannelElem("", Some(StarPlus), Some("logo1")),
   ChannelElem("c3", None, Some("logo3")),
   ChannelElem("c3", Some(<<" ">>), None)}

InitChannels ==
  /\ InitRun
  /\ FixedClock
  /\ WebpIdle /\ NamesIdle /\ ScraperIdle /\ ImporterIdle
  /\ filter_exists \in BOOLEAN
  /\ filter_txt = (IF filter_exists THEN <<StarPlus, Other>> ELSE << >>)
  /\ \E cs \in SeqsOf(ChannelElems, 0, MaxChannels) :
       jio_feed = Feed(cs, JioProgrammes)
  /\ tata_feed = Feed(<<ChannelElem("t1", Some(StarPlusHD), Some("logo2"))>>,
                      TataProgrammes)

SpecChannels == InitChannels /\ [][Next]_vars

----------------------------------------------------------------------------
(* Runs of main() over the readings of the wall clock at the two calls of  *)
(* local_day_window_ist                                                     *)

\* instants datetime.now(IST) can return: the last minute of the day before
\* the feeds' day 0, its midnight, 10:00, its last minute, the next midnight
ClockReadings == {-1, 0, NowIST, Day - 1, Day}

\* the second call reads the clock in the same minute as the first or in the
\* next one
ClockPairs == {c \in ClockReadings \X ClockReadings : c[2] - c[1] \in {0, 1}}

InitClock ==
  /\ InitRun
  /\ WebpIdle /\ NamesIdle /\ ScraperIdle /\ ImporterIdle
  /\ clock \in ClockPairs
  /\ filter_exists \in BOOLEAN
  /\ filter_txt = (IF filter_exists THEN <<StarPlus, Other>> ELSE << >>)
  /\ jio_feed = Feed(<<ChannelElem("c1", Some(StarPlus), Some("logo1"))>>,
                     <<ProgrammeElem("c1", -30, 30, Some(<<"A">>), Some("u1")),
                       ProgrammeElem("c1", 30, 60, Some(<<"B">>), None),
                       ProgrammeElem("c1", Day + 30, Day + 60, Some(<<"A">>), Some("u2"))>>)
  /\ tata_feed = Feed(<<ChannelElem("t1", Some(StarPlusHD), Some("logo2"))>>,
                      TataProgrammes)

SpecClock == InitClock /\ [][Next]_vars

----------------------------------------------------------------------------
(* Properties *)

Resolved == pc \in {"parse_programmes", "prepare_output", "target_loop",
                    "prog_loop", "day_written", "done"}

\* the candidate keys of a target, in the order the resolver is to try them
KeysOf(t) ==
  LET norm == normalize_name(t)
      base == base_name_no_hd(norm)
  IN  <<norm, base, base \o <<"h", "d">>, norm \o <<"h", "d">>>>

Present(t, idx) == LET keys == KeysOf(t) IN {i \in 1..4 : keys[i] \in DOMAIN idx}

Least(S) == CHOOSE i \in S : \A j \in S : i <= j

\* the channel id listed first under the first candidate key present in idx
FirstMatch(t, idx) == idx[KeysOf(t)[Least(Present(t, idx))]][1]

\* C1: every target resolves to the first channel of the first candidate key
\* [norm, base, base+"hd", norm+"hd"] present in the Jio index, else to that of
\* the Tata index, and to "none" exactly when neither index has a candidate key
C1_ResolverPriority ==
  Resolved =>
    \A n \in 1..Len(targets) :
      LET t   == targets[n]
          sel == selections[lower(t)]
      IN  IF Present(t, jio_idx) # {}
          THEN sel = [src |-> "jio", meta |-> Some(jio_by_id[FirstMatch(t, jio_idx)])]
          ELSE IF Present(t, tata_idx) # {}
          THEN sel = [src |-> "tata", meta |-> Some(tata_by_id[FirstMatch(t, tata_idx)])]
          ELSE sel = [src |-> "none", meta |-> None]

\* C1 witness: the primary feed has channels, a target has candidate keys only
\* in the fallback index and is resolved to the fallback source
C1_Witness ==
  /\ Resolved
  /\ jio_idx # EmptyDict
  /\ \E n \in 1..Len(targets) :
       /\ Present(targets[n], jio_idx) = {}
       /\ Present(targets[n], tata_idx) # {}
       /\ selections[lower(targets[n])].src = "tata"

\* the programmes of lst that overlap the window of the current day
Included == {i \in 1..Len(lst) :
               lst[i].start_utc < CurDay.win.end /\ lst[i].end_utc > CurDay.win.start}

CountIn(seq, x) == Cardinality({i \in 1..Len(seq) : seq[i] = x})

\* the Tata channel with the normalized identity of target t, and its
\* programmes in the Tata feed
TataTwins(t) == IF Present(t, tata_idx) = {} THEN {} ELSE {FirstMatch(t, tata_idx)}
TwinProgrammes(cid) == parse_programmes_for_ids(tata_feed, {cid})[cid]
TwinIncluded(cid) ==
  {i \in 1..Len(TwinProgrammes(cid)) :
     /\ TwinProgrammes(cid)[i].start_utc < CurDay.win.end
     /\ TwinProgrammes(cid)[i].end_utc > CurDay.win.start}

\* C2: a target resolved to Jio whose Jio programmes do not overlap the day,
\* while Tata has programmes for the channel of the same normalized identity,
\* gets that day's record built from Tata's overlapping programmes
C2_FallbackByIdentity ==
  (pc = "day_written" /\ CurSel.src = "jio"
     /\ ~(\E i \in 1..Len(ProgsList(CurSel)) :
            /\ ProgsList(CurSel)[i].start_utc < CurDay.win.end
            /\ ProgsList(CurSel)[i].end_utc > CurDay.win.start))
  => \A cid \in TataTwins(CurTarget) :
       TwinProgrammes(cid) # << >> =>
         /\ Len(data[1].programs) = Cardinality(TwinIncluded(cid))
         /\ \A i \in TwinIncluded(cid) :
              CountIn(data[1].programs, Row(TwinProgrammes(cid)[i])) >= 1

\* C3: every row of a written record comes from a programme of the day's list
\* whose end is after its start
C3_EndAfterStart ==
  pc = "day_written" =>
    \A j \in 1..Len(data[1].programs) :
      \E i \in 1..Len(lst) :
        /\ Row(lst[i]) = data[1].programs[j]
        /\ lst[i].end_utc > lst[i].start_utc

\* C4: the rows of a written record are those of the overlapping programmes in
\* ascending order of their true start instants (stated for lists whose
\* programmes all end after they start)
C4_OrderedByStart ==
  (pc = "day_written" /\ \A i \in 1..Len(lst) : lst[i].end_utc > lst[i].start_utc) =>
    /\ Len(data[1].programs) = Cardinality(Included)
    /\ \E g \in [1..Len(data[1].programs) -> Included] :
         /\ \A a, b \in 1..Len(data[1].programs) : g[a] = g[b] => a = b
         /\ \A a \in 1..Len(data[1].programs) :
              data[1].programs[a] = Row(lst[g[a]])
         /\ \A a, b \in 1..Len(data[1].programs) :
              a < b => lst[g[a]].start_utc <= lst[g[b]].start_utc

\* C5: a programme that begins before the window start and ends inside the
\* window has a row in the day's record whose start_time is the label of the
\* window start (local midnight)
C5_ClippedToMidnight ==
  pc = "day_written" =>
    \A i \in 1..Len(lst) :
      (/\ lst[i].start_utc < CurDay.win.start
       /\ lst[i].end_utc > CurDay.win.start
       /\ lst[i].end_utc <= CurDay.win.end)
      => \E j \in 1..Len(data[1].programs) :
           /\ data[1].programs[j].title = lst[i].title
           /\ data[1].programs[j].end_time = format_time_12h(lst[i].end_utc)
           /\ data[1].programs[j].start_time = format_time_12h(CurDay.win.start)

\* C6: the rows of a written record are exactly the rows of the programmes of
\* the day's list with start < winEnd and end > winStart, each once
C6_HalfOpenOverlap ==
  pc = "day_written" =>
    /\ Len(data[1].programs) = Cardinality(Included)
    /\ \A i \in Included :
         CountIn(data[1].programs, Row(lst[i]))
           = Cardinality({k \in Included : Row(lst[k]) = Row(lst[i])})

\* C6 witness: a record with a row was written from a list that also holds a
\* programme ending exactly at the window start
C6_Witness ==
  /\ pc = "day_written"
  /\ data[1].programs # << >>
  /\ \E i \in 1..Len(lst) : lst[i].end_utc = CurDay.win.start
  /\ Cardinality(Included) < Len(lst)

\* C7: after the run, every target that matched no channel has its placeholder
\* record (raw name, empty logo, no programmes) in both output directories
C7_PlaceholderForEveryMiss ==
  pc = "done" =>
    \A n \in 1..Len(targets) :
      selections[lower(targets[n])].src = "none" =>
        /\ slugify(targets[n]) \in DOMAIN out_files["output-today"]
        /\ out_files["output-today"][slugify(targets[n])]
             = Record(targets[n], "", today.label, << >>)
        /\ slugify(targets[n]) \in DOMAIN out_files["output-tomorrow"]
        /\ out_files["output-tomorrow"][slugify(targets[n])]
             = Record(targets[n], "", tomorrow.label, << >>)

\* C8: the run is never aborted by the failure of a feed fetch
C8_FetchFailureTolerated ==
  ~(pc = "crashed" /\ (jio_bytes = None \/ tata_bytes = None))

\* C9: no logo URL is requested from the network more than once in a run
C9_FetchedAtMostOnce ==
  \A url \in DOMAIN http_gets : http_gets[url] <= 1

\* C10: in a written record, a row whose logo could not be fetched or decoded
\* (its URL is not in downloaded_map) has an empty show_logo
C10_EmptyLogoOnFailure ==
  pc = "day_written" =>
    \A j \in 1..Len(data[1].programs) :
      data[1].programs[j].show_logo \notin DOMAIN downloaded_map
        => data[1].programs[j].show_logo = ""

\* C14: when filter.txt is absent the run ends with exit status 1, and it
\* does so with no feed fetched, no logo requested, no directory created and
\* no file written
C14_AbsentFilterAborts ==
  ~filter_exists =>
     /\ pc \in {"start", "exit"}
     /\ pc = "exit" => exit_code = 1
     /\ jio_bytes = None /\ tata_bytes = None
     /\ DOMAIN http_gets = {}
     /\ dirs = {}
     /\ asset_files = {}
     /\ \A d \in DOMAIN out_files : DOMAIN out_files[d] = {}

C14_Witness == ~filter_exists /\ pc = "exit" /\ exit_code = 1

\* C15: no network call waits for ever: a run that has not ended (returned,
\* exited or died with a traceback) can always take a further step
C15_NoCallWaitsForEver ==
  pc \in {"done", "exit", "crashed"} \/ ENABLED Next

\* the <channel> elements of both feeds whose display name is the target's
\* name up to case, separators, "&" and a trailing "hd"
MatchingChannels(t) ==
  LET hit(e) == e.name # None /\
                LET n == normalize_name(strip(e.name[1]))
                IN  {n, base_name_no_hd(n)} \cap
                      {normalize_name(t), base_name_no_hd(normalize_name(t))} # {}
  IN  {[src |-> "jio", elem |-> jio_feed.channels[i]] :
          i \in {j \in 1..Len(jio_feed.channels) : hit(jio_feed.channels[j])}}
      \cup
      {[src |-> "tata", elem |-> tata_feed.channels[i]] :
          i \in {j \in 1..Len(tata_feed.channels) : hit(tata_feed.channels[j])}}

\* target "Star Plus" while the only matching channel, in one place of one
\* feed, is called "Star Plus HD"
HDOnly(t) ==
  /\ t = StarPlus
  /\ Len(SelectSeq(jio_feed.channels, LAMBDA e : e.name = Some(StarPlusHD)))
       + Len(SelectSeq(tata_feed.channels, LAMBDA e : e.name = Some(StarPlusHD))) = 1
  /\ LET matching == MatchingChannels(t)
     IN  /\ Cardinality(matching) = 1
         /\ \A m \in matching : m.elem.name = Some(StarPlusHD)

TheMatch(t) == CHOOSE m \in MatchingChannels(t) : TRUE

\* the rows of the well-formed <programme> elements of a feed with channel id cid
RowsOfChannel(feed, cid) ==
  {Row(Programme(ParseTimes(e.start, e.stop)[1].start,
                 ParseTimes(e.start, e.stop)[1].end,
                 IF e.title = None THEN << >> ELSE strip(e.title[1]),
                 IF e.icon = None THEN "" ELSE e.icon[1])) :
     e \in {feed.programmes[i] : i \in {j \in 1..Len(feed.programmes) :
               /\ feed.programmes[j].channel = cid
               /\ ParseTimes(feed.programmes[j].start,
                             feed.programmes[j].stop) # None}}}

\* C13: a target "Star Plus" whose only matching channel is "Star Plus HD"
\* resolves to that channel, and every row of the records written for the
\* target comes from a programme carrying that channel's id
C13_HDVariantResolves ==
  \A k \in 1..Len(targets) :
    HDOnly(targets[k]) =>
      LET m == TheMatch(targets[k]) IN
      /\ Resolved =>
           /\ selections[lower(targets[k])].src = m.src
           /\ selections[lower(targets[k])].meta # None
           /\ selections[lower(targets[k])].meta[1].id = m.elem.id
      /\ (pc = "day_written" /\ ti = k) =>
           \A j \in 1..Len(data[1].programs) :
              data[1].programs[j] \in
                RowsOfChannel(jio_feed, m.elem.id) \cup RowsOfChannel(tata_feed, m.elem.id)

\* tomorrow's record of such a target is written and today's has rows
C13_Witness ==
  /\ pc = "day_written"
  /\ di = 2
  /\ HDOnly(CurTarget)
  /\ Len(targets) = 2
  /\ slugify(ChannelName(CurTarget, CurSel)) \in DOMAIN out_files["output-today"]
  /\ out_files["output-today"][slugify(ChannelName(CurTarget, CurSel))].programs # << >>

\* C17: the record just written for a resolved target carries the name and
\* the logo of the channel the resolver matched (the entry of that id in the
\* table of the matched source), also on a day whose rows come from the
\* fallback list
C17_MetadataFromMatch ==
  pc = "day_written" =>
    LET tab == IF CurSel.src = "jio" THEN jio_by_id ELSE tata_by_id
        cid == CurSel.meta[1].id
    IN  /\ cid \in DOMAIN tab
        /\ data[1].channel_name = tab[cid].name
        /\ data[1].channel_logo = tab[cid].logo

\* a record whose rows come from the fallback list, which is another
\* channel's list in the other feed
C17_Witness ==
  /\ pc = "day_written"
  /\ CurSel.src = "jio"
  /\ lst = FallbackList(CurSel)
  /\ lst # ProgsList(CurSel)
  /\ data[1].programs # << >>
  /\ CurSel.meta[1].id \in DOMAIN tata_by_id
  /\ tata_by_id[CurSel.meta[1].id].name # data[1].channel_name

\* C20: once both records of a target resolved in the primary feed are
\* written, a day whose other day was given the fallback list, and on which
\* the primary list has a programme, has exactly the rows of the primary
\* list's programmes overlapping that day
C20_OtherDayKeepsPrimary ==
  (pc = "day_written" /\ di = 2 /\ CurSel.src = "jio") =>
    LET prim    == GetList(jio_prog, CurSel.meta[1].id)
        fb      == GetList(tata_prog, CurSel.meta[1].id)
        slug    == slugify(data[1].channel_name)
        rec(d)  == IF d = 1 THEN out_files["output-today"][slug] ELSE data[1]
        win(d)  == IF d = 1 THEN today ELSE tomorrow
        In(d)   == {i \in 1..Len(prim) :
                      prim[i].start_utc < win(d).end /\ prim[i].end_utc > win(d).start}
        Sub(d)  == In(d) = {} /\ fb # << >>
    IN  \A d \in {1, 2} :
          (Sub(3 - d) /\ In(d) # {}) =>
             /\ Len(rec(d).programs) = Cardinality(In(d))
             /\ {rec(d).programs[j] : j \in 1..Len(rec(d).programs)}
                  = {Row(prim[i]) : i \in In(d)}

\* tomorrow's record has rows of the fallback list while today's has rows of
\* the primary list
C20_Witness ==
  /\ pc = "day_written" /\ di = 2 /\ CurSel.src = "jio"
  /\ ~HasAny(ProgsList(CurSel), tomorrow)
  /\ HasAny(ProgsList(CurSel), today)
  /\ lst = FallbackList(CurSel)
  /\ data[1].programs # << >>
  /\ out_files["output-today"][slugify(data[1].channel_name)].programs # << >>

\* C16: two spellings of one name (differing in letter case, in separators
\* or in "&" written "and") get the same key from normalize_name
C16_SpellingsShareKey ==
  nm_keys # None => nm_keys[1][1] = nm_keys[1][2]

\* "Star Plus" and "STARPLUS" have been normalized, to "starplus"
C16_Witness ==
  /\ nm_names = <<StarPlusName, StarPlusUpper>>
  /\ nm_keys = Some(<<lower(StarPlusUpper), lower(StarPlusUpper)>>)

\* (scale, quality) a is to be tried before b: larger scale factor first,
\* and at one scale the higher quality first
TriedBefore(a, b) ==
  \/ DOWNSCALE_FACTORS[a[1]] > DOWNSCALE_FACTORS[b[1]]
  \/ DOWNSCALE_FACTORS[a[1]] = DOWNSCALE_FACTORS[b[1]]
       /\ QUALITY_STEPS[a[2]] > QUALITY_STEPS[b[2]]

Fits(a) == wp_enc[a] # None /\ wp_enc[a][1] <= MAX_BYTES

ScNamed(k, n) ==
  IF sc_feeds[k] = None THEN {}
  ELSE IF ~ScParses(sc_feeds[k][1], EPG_SOURCES[k].convert_to_ist) THEN {}
  ELSE LET chans == ScChannels(sc_feeds[k][1].channels, << >>)
       IN  {chans[i] : i \in {j \in 1..Len(chans) : lower(strip(chans[j].name)) = n}}

\* C18: at the end of a run of the filter-based scraper, for a filtered name
\* carried by a channel of Tata Play and by a channel of Jio TV, whatever was
\* collected under the name is the Jio TV channel's name, logo and programmes,
\* and a record written for it holds the Jio TV name and the rows of the
\* Jio TV programmes of that day
C18_JioPreferred ==
  sc_pc = "done" =>
    \A n \in filter_names :
      (ScNamed(1, n) # {} /\ ScNamed(2, n) # {}) =>
        \A i \in 1..Len(aggregated) :
          aggregated[i].key = n =>
            \E j \in ScNamed(2, n) :
              LET jp == ScProgrammes(sc_feeds[2][1].programmes, TRUE, j.id)
                  f  == sc_sanitize_filename(j.name)
                  rec(d) == create_json_schedule(
                              j.name, j.logo,
                              filter_programmes_by_date(jp, ScToday + d), ScToday + d)
              IN  /\ aggregated[i].name = j.name
                  /\ aggregated[i].logo = j.logo
                  /\ aggregated[i].programmes = jp
                  /\ f \in DOMAIN sc_files["data/today"] =>
                       sc_files["data/today"][f] = rec(0)
                  /\ f \in DOMAIN sc_files["data/tomorrow"] =>
                       sc_files["data/tomorrow"][f] = rec(1)

\* the record names a file under assets/
RefersToAsset(rec) ==
  \/ rec.channel_logo # << >>
  \/ \E j \in 1..Len(rec.schedule) : rec.schedule[j].show_logo # << >>

\* C11: a step that writes a record naming a local asset file is taken only
\* when every image task handed to the pool has completed
C11_AssetsAwaitedBeforeRecords ==
  [][\A f \in DOMAIN im_out' :
        ((f \notin DOMAIN im_out \/ im_out'[f] # im_out[f]) /\ RefersToAsset(im_out'[f]))
          => \A i \in 1..Len(futures) : futures[i].st = "done"]_vars

\* C19: no image is downloaded and compressed twice: at most one completed
\* download per source URL, at most one write per destination file
C19_NoDuplicateDownload ==
  /\ \A u \in DOMAIN im_gets : im_gets[u] <= 1
  /\ \A f \in DOMAIN im_assets : im_assets[f] <= 1

\* main() is past both calls of parse_programmes_for_ids
ProgrammesParsed == pc \in {"prepare_output", "target_loop", "prog_loop",
                            "day_written", "done"}

\* a timestamp that strptime rejects in both layouts
Unparseable(stamp) == stamp.layout \notin {"space", "nospace"}

\* an element with an unparseable start or stop, or without channel attribute
BadElem(e) == Unparseable(e.start) \/ Unparseable(e.stop) \/ e.channel = ""

\* an element whose start and stop are written in one accepted layout
SameLayout(e) == e.start.layout = e.stop.layout /\ ~Unparseable(e.start)

\* what a parsed element contributes to the list of its channel
ProgrammeOf(e) ==
  Programme(e.start.t, e.stop.t,
            IF e.title = None THEN << >> ELSE strip(e.title[1]),
            IF e.icon = None THEN "" ELSE e.icon[1])

ElemsOf(feed, cid, P(_)) ==
  {j \in 1..Len(feed.programmes) :
     feed.programmes[j].channel = cid /\ P(feed.programmes[j])}

NotBad(e) == ~BadElem(e)

\* the bad elements of feed leave no trace in parsed, and every element of a
\* wanted channel in one accepted layout is in the list of its channel
BadSkippedOthersParsed(feed, parsed, wanted) ==
  \A cid \in wanted :
    /\ cid \in DOMAIN parsed
    /\ Len(parsed[cid]) <= Cardinality(ElemsOf(feed, cid, NotBad))
    /\ \A i \in 1..Len(parsed[cid]) :
         \E j \in ElemsOf(feed, cid, NotBad) :
            parsed[cid][i] = ProgrammeOf(feed.programmes[j])
    /\ \A j \in ElemsOf(feed, cid, SameLayout) :
         CountIn(parsed[cid], ProgrammeOf(feed.programmes[j]))
           >= Cardinality({k \in ElemsOf(feed, cid, SameLayout) :
                             ProgrammeOf(feed.programmes[k])
                               = ProgrammeOf(feed.programmes[j])})

\* C21: parse_programmes_for_ids skips an element whose start or stop cannot
\* be parsed or whose channel attribute is missing, and still parses the other
\* elements of the feed: no programme of the result comes from such an
\* element, and every element of a wanted channel written in one accepted
\* layout is in the result, wherever the bad elements stand in the feed
C21_BadElementSkipped ==
  ProgrammesParsed =>
    /\ BadSkippedOthersParsed(jio_feed, jio_prog, wanted_ids_by_source["jio"])
    /\ BadSkippedOthersParsed(tata_feed, tata_prog, wanted_ids_by_source["tata"])

\* C21 witness: an element with a bad timestamp or no channel stands before a
\* well-formed element of the wanted channel, whose programme was parsed
C21_Witness ==
  /\ ProgrammesParsed
  /\ \E i, j \in 1..Len(jio_feed.programmes) :
       /\ i < j
       /\ BadElem(jio_feed.programmes[i])
       /\ SameLayout(jio_feed.programmes[j])
       /\ jio_feed.programmes[j].channel \in wanted_ids_by_source["jio"]
       /\ jio_prog[jio_feed.programmes[j].channel]
            = <<ProgrammeOf(jio_feed.programmes[j])>>

\* an element whose start and stop are each written in an accepted layout
EachWellFormed(e) == ~Unparseable(e.start) /\ ~Unparseable(e.stop)

\* C22: every programme element of a wanted channel whose start and stop are
\* each well-formed in one of the two accepted layouts, whatever the
\* combination of the two layouts, has its programme in the parsed list of
\* its channel
C22_EveryLayoutKept ==
  ProgrammesParsed =>
    \A cid \in wanted_ids_by_source["jio"] :
      \A j \in ElemsOf(jio_feed, cid, EachWellFormed) :
        CountIn(jio_prog[cid], ProgrammeOf(jio_feed.programmes[j])) >= 1

\* main() is past both calls of parse_channels
ChannelsParsed == pc = "resolve" \/ Resolved

\* the characters of the channel ids of the feeds
IdChars == [cid \in {"c1", "c2", "c3", "t1"} |->
              <<IF cid = "t1" THEN "t" ELSE "c",
                CASE cid = "c2" -> "2" [] cid = "c3" -> "3" [] OTHER -> "1">>]

\* the last <channel> element of the feed that carries the id cid
LastElemOf(feed, cid) ==
  LET at == {j \in 1..Len(feed.channels) : feed.channels[j].id = cid}
  IN  feed.channels[CHOOSE j \in at : \A k \in at : k <= j]

\* C23: parse_channels records nothing for a channel element without id; for
\* every other id it records the display name of the element (the channel id
\* when the display name is missing or empty) and the src of its icon (the
\* empty string when there is no icon)
C23_ChannelFallbacks ==
  ChannelsParsed =>
    /\ DOMAIN jio_by_id
         = {jio_feed.channels[j].id : j \in 1..Len(jio_feed.channels)} \ {""}
    /\ \A cid \in DOMAIN jio_by_id :
         LET e       == LastElemOf(jio_feed, cid)
             display == IF e.name = None THEN << >> ELSE strip(e.name[1])
         IN  /\ jio_by_id[cid].id = cid
             /\ jio_by_id[cid].name
                  = (IF display # << >> THEN display ELSE IdChars[cid])
             /\ jio_by_id[cid].logo = (IF e.icon = None THEN "" ELSE e.icon[1])

\* main() is past both calls of local_day_window_ist
WindowsComputed == pc \in {"target_loop", "prog_loop", "day_written", "done"}

\* the IST midnight that begins the calendar day of the instant t
MidnightOf(t) ==
  CHOOSE m \in {d * Day : d \in -2..3} : m <= t /\ t < m + Day

\* the window of the call that read the clock at now_ist: it starts at the
\* midnight of that day moved by offset days, lasts 24 hours and is labelled
\* with the date of its start
IsDayWindow(win, now_ist, offset) ==
  /\ win.start = MidnightOf(now_ist) + offset * Day
  /\ win.end = win.start + 24 * 60
  /\ win.label * Day = win.start

\* C24: local_day_window_ist(offset) returns the IST midnight of the date of
\* now plus offset days as start, start + 24 hours as end and the date of
\* start as label, for offset 0 (first call) and offset 1 (second call)
C24_DayWindow ==
  WindowsComputed =>
    /\ IsDayWindow(today, clock[1], 0)
    /\ IsDayWindow(tomorrow, clock[2], 1)

\* C24 witness: both windows were computed from readings that are not a
\* midnight, and a record was written
C24_Witness ==
  /\ pc = "done"
  /\ clock[1] % Day # 0
  /\ clock[2] % Day # 0
  /\ today.start < clock[1]
  /\ out_files["output-today"] # EmptyDict

AscendingByStart(list) ==
  \A i, j \in 1..Len(list) : i < j => list[i].start_utc <= list[j].start_utc

\* C25: every list returned by parse_programmes_for_ids, and the list the
\* per-day window filter walks through, is in ascending order of start
\* instant, whatever the order of the programme elements in the feed
C25_ListsSortedByStart ==
  /\ ProgrammesParsed =>
       /\ \A cid \in wanted_ids_by_source["jio"] : AscendingByStart(jio_prog[cid])
       /\ \A cid \in wanted_ids_by_source["tata"] : AscendingByStart(tata_prog[cid])
  /\ pc \in {"prog_loop", "day_written"} => AscendingByStart(lst)

\* C25 witness: the feed lists a later programme of the wanted channel before
\* an earlier one, both were parsed and the day loop walks through them
C25_Witness ==
  /\ pc = "prog_loop"
  /\ Len(lst) = 2
  /\ lst[1].start_utc < lst[2].start_utc
  /\ Len(jio_feed.programmes) = 2
  /\ jio_feed.programmes[1].start.t > jio_feed.programmes[2].start.t
  /\ lst = jio_prog["c1"]

\* the channels of a parsed table whose normalized display name is exactly
\* the normalized name of target t
ExactChannels(by_id, t) ==
  {cid \in DOMAIN by_id : normalize_name(by_id[cid].name) = normalize_name(t)}

\* the selection is a channel of source src with exactly the target's
\* normalized name
ExactSelection(sel, src, t) ==
  /\ sel.src = src
  /\ sel.meta # None
  /\ normalize_name(sel.meta[1].name) = normalize_name(t)

\* C26: a target whose normalized name is exactly the normalized display name
\* of a channel of the primary feed resolves to such a channel of the primary
\* feed, not to an HD variant, in whatever order the feed lists its channels;
\* and likewise for the fallback feed when the primary index has none of the
\* target's candidate keys
C26_ExactNameBeforeHD ==
  Resolved =>
    \A n \in 1..Len(targets) :
      LET t   == targets[n]
          sel == selections[lower(t)]
      IN  /\ ExactChannels(jio_by_id, t) # {} => ExactSelection(sel, "jio", t)
          /\ (Present(t, jio_idx) = {} /\ ExactChannels(tata_by_id, t) # {})
               => ExactSelection(sel, "tata", t)

\* C27: after a run, each output directory holds exactly one record per
\* target of the deduplicated target list: no two targets wrote to the same
\* file
C27_OneFilePerTarget ==
  pc = "done" =>
    \A d \in DOMAIN out_files :
      Cardinality(DOMAIN out_files[d]) = Len(targets)

\* every id listed under a key of the index is in by_id, under a name whose
\* normalized form, or that form without a trailing "hd", is the key
IndexAgrees(by_id, idx) ==
  \A k \in DOMAIN idx :
    \A i \in 1..Len(idx[k]) :
      /\ idx[k][i] \in DOMAIN by_id
      /\ k \in {normalize_name(by_id[idx[k][i]].name),
                base_name_no_hd(normalize_name(by_id[idx[k][i]].name))}

\* C28: after parse_channels, every channel id listed under a key of the name
\* index is in by_id and the key is the normalized name of that channel or
\* its HD-stripped base, also when the feed repeats a channel id under
\* different display names
C28_IndexAgreesWithTable ==
  ChannelsParsed =>
    /\ IndexAgrees(jio_by_id, jio_idx)
    /\ IndexAgrees(tata_by_id, tata_idx)

\* C29: in every run the window of tomorrow begins at the instant the window
\* of today ends and their labels are consecutive dates, also when the wall
\* clock passes local midnight between the two calls of local_day_window_ist
C29_WindowsContiguous ==
  WindowsComputed =>
    /\ tomorrow.start = today.end
    /\ tomorrow.label = today.label + 1

\* C30: every path download_and_compress_logo returned, which the caller
\* recorded in the URL-to-path cache, is the path of a file that was written;
\* a logo of which no encoding succeeded is not in the cache
C30_CachedPathsExist ==
  \A url \in DOMAIN downloaded_map : downloaded_map[url] \in asset_files

====
